---- MODULE Spec2Model ----
(***************************************************************************)
(* Model of the CAN bootloader flashing engine of PythonCAN-Utils          *)
(* (drivers/Firmware_Flasher.py): FirmwareFlasher.flash_firmware and the   *)
(* stages it calls, running against a bootloader target and a shared bus.  *)
(*                                                                         *)
(* Times are in milliseconds.  A frame is a record [id, data, ref]: id and *)
(* data are what the driver's read_message returns; ref is a ghost field   *)
(* (never read by the engine) holding the position on the bus of the       *)
(* command the frame answers, 0 for an unsolicited frame.                  *)
(***************************************************************************)
EXTENDS Integers, Sequences, FiniteSets, TLC

(* ---------------- protocol constants (Firmware_Flasher.py) -------------- *)
CAN_HOST_ID == 402654977
CAN_BOOTLOADER_ID == 402654976
RESET_BASE_ID == 149950210
CMD_ERASE_FLASH == 1
CMD_WRITE_DATA == 7
CMD_READ_FLASH == 3
CMD_JUMP_TO_APP == 4
CMD_SET_ADDRESS == 6
RESP_ACK == 16
RESP_NACK == 17
RESP_READY == 20
RESP_DATA == 21
APP_START_ADDRESS == 134250496
APP_MAX_SIZE == 212992
RESPONSE_TIMEOUT == 1000
ERASE_TIMEOUT == 15000
WRITE_CHUNK_SIZE == 4
RESET_WAIT == 3000
SET_ADDRESS_WAIT == 15000
ACK_POLL == 50
ACK_WINDOW == 1000
VERIFY_CHUNK == 7
VERIFY_WAIT == 200
JUMP_WAIT == 500
PAD_BYTE == 255

(* ---------------- bounds of the model ----------------------------------- *)
\* Time advances in quanta of Tick ms.
Tick == 500
\* Frames the receive queue of the driver holds at most.
MaxQueue == 1
\* batch_size ranges over 1..MaxBatch.
MaxBatch == 2

\* The firmware files flash_firmware is given: empty, one byte, and nine
\* bytes (three chunks after padding, two read-back spans).
Images == { <<>>, <<171>>, <<222, 173, 190, 239, 255, 255, 255, 255, 1>> }
\* module_number arguments: a valid one and an invalid one.
ModuleNumbers == {3, 6}
\* Size of the modelled application flash, in bytes.
MemSize == 12
\* Images held by their length only have 0..MaxExcess bytes, or from one
\* byte less than APP_MAX_SIZE to MaxExcess bytes more.
MaxExcess == 2
\* HTTP requests that reach the web server in one run, and frames its
\* receive thread counts.
MaxRequests == 3
MaxMessages == 1
\* Of these requests, the uploads of a firmware.
MaxUploads == 1
\* Device types of a connect request, and the firmware a client uploads.
DeviceTypes == {"pcan", "network"}
Uploads == { <<171>> }

(* ---------------- frames ------------------------------------------------ *)
NoMsg == [id |-> -1, data |-> <<>>, ref |-> 0]

Min(a, b) == IF a < b THEN a ELSE b

\* data padded with 0x00 to 8 bytes, cut at 8 (msg_data[:8]).
Pad8(data) == [i \in 1..8 |-> IF i <= Len(data) THEN data[i] ELSE 0]

\* (address >> 24) & 0xFF, ..., address & 0xFF
addr_bytes(address) ==
    << (address \div 16777216) % 256, (address \div 65536) % 256,
       (address \div 256) % 256, address % 256 >>

\* The frame _send_command(command, data) hands to driver.send_message.
CommandFrame(command, data) ==
    [id |-> CAN_HOST_ID, data |-> Pad8(<<command>> \o data), ref |-> 0]

\* The frame send_reset_message hands to driver.send_message.
ResetFrame(m) ==
    [id |-> RESET_BASE_ID + m * 65536, data |-> Pad8(<<>>), ref |-> 0]

\* The heartbeat test of _wait_response and set_address:
\* msg.data and data[0] == READY and len >= 3 and data[1] == 1 and data[2] == 0
IsHeartbeatNoLen(data) ==
    /\ Len(data) > 0
    /\ data[1] = RESP_READY
IsHeartbeat(data) ==
    /\ Len(data) > 0
    /\ data[1] = RESP_READY
    /\ Len(data) >= 3
    /\ data[2] = 1
    /\ data[3] = 0

\* pad_to_4byte_boundary
pad_to_4byte_boundary(data) ==
    LET padding_needed == (4 - (Len(data) % 4)) % 4
    IN  data \o [i \in 1..padding_needed |-> PAD_BYTE]

\* firmware_data[:APP_MAX_SIZE]
Truncate(data) == SubSeq(data, 1, Min(Len(data), APP_MAX_SIZE))

\* data[lo:hi] of Python (0-based, hi exclusive, clipped to the length).
Slice(data, lo, hi) == SubSeq(data, lo + 1, Min(hi, Len(data)))

(* ---------------- state ------------------------------------------------- *)
VARIABLES
    \* arguments of flash_firmware and the content of the firmware file
    file, module_number, verify, jump, batch_size,
    \* position of the engine in flash_firmware and the stage it runs
    pc,
    \* flash_firmware: the truncated, padded image; its return value
    firmware_data, result,
    \* FlashProgress records handed to progress_callback, in order
    events,
    \* the driver: frames waiting in read_message, frames sent on the bus
    rx, bus,
    \* the running wait: time since its start_time, its timeout, where it
    \* returns to, and what it returned (NoMsg is None)
    elapsed, wr_timeout, wr_ret, resp,
    \* read_pending_acks: time since its start_time, ack_count
    outer, ack_count,
    \* write_firmware
    bytes_written, chunks_in_batch,
    \* verify_flash
    bytes_verified, address, current_address, batch_reads, ri,
    \* the target: mode, commands of the bus it has handled, its reaction to
    \* each, its flash, its write pointer (offset from the application start)
    tmode, tresp, mem, taddr,
    \* ghosts: a READY frame was put on the bus; the refs of the ACKs
    \* read_pending_acks counted; the ref of the NACK it read
    ready_emitted, ack_refs, nack_ref,
    \* flash_firmware on an image held by its length (see "images of any
    \* size" below): len(firmware_data) as read, the image, the phase, the
    \* bytes written or verified, the last frame sent and the number of
    \* frames sent, the progress events of the load, and the address at which
    \* the target stored the last chunk
    original_size, image, phase, position, sent, nsent, announced, write_addr,
    \* CANBackend of the web server: its driver (0 is None, else the driver
    \* object), device_type, is_connected, start_time (0 is None) and
    \* message_count
    driver, device_type, is_connected, start_time, message_count,
    \* the HTTP requests that reached the server and wait for the event loop
    \* (the head is the one being handled), the number that arrived, and the
    \* last response returned
    pending, arrived, uploads, last_reply,
    \* ghosts: the driver objects created, and those whose device is open
    created, open,
    \* the desktop GUI (PythonCAN-GUI-Tabbed.py), which keeps its own
    \* is_connected in the variable of that name: flash_in_progress,
    \* flash_response_data (<<>> is None), flash_response_event, the threads
    \* started by the Flash and Erase buttons, total_messages, and the count
    \* of each row of message_data
    flash_in_progress, flash_response_data, flash_response_event, threads,
    total_messages, message_data,
    \* NetworkCANDriver: _connected, _stop_receive, _receive_thread (0 is
    \* None, else the receive loop it refers to), _receive_callback (0 is
    \* None), _last_timestamp; the receive loops started so far; the call of
    \* stop_receive_thread or disconnect that waits in join
    net_connected, net_stop_receive, net_receive_thread, net_receive_callback,
    net_last_timestamp, loops, joining,
    \* ghosts: the frames the server returned in a poll response, the frames
    \* passed to a callback, in order, and the number of non-empty responses
    \* and of calls made on the driver
    returned, delivered, polls, calls,
    \* _base_url; ghosts: the DELETE /api/messages requests sent, and whether
    \* a connect was refused a server that answered
    net_base_url, deletes, reconnect_failed,
    \* a message record of a server (JSON object) and what a driver made of it
    record, parsed,
    \* BluetoothCANDriver: each calling thread's place in _send_command, the
    \* lines on the socket in both directions, _pending_responses, what
    \* _send_command returned, and how much was sent
    commands, socket_out, socket_in, pending_responses, command_results,
    issued, pushed,
    \* the message table of the GUI with its rows (type, count, data), and
    \* the frames that were received
    msg_table, frames_seen,
    \* the backend's DBC database and the decodings made with it
    dbc_database, decodes,
    \* the backend's WebSocket subscribers: active_connections, whether
    \* backend.loop is set, the broadcast_message coroutines on the event loop,
    \* the state of each client's socket and the frames written to it, the
    \* message_data the receive thread made, in order, and how many there were
    \* when each client was added
    active_connections, loop_set, tasks, sockets, ws_received, handed, since,
    \* The connection of one BluetoothCANDriver: _connected, _socket ("None" or
    \* the socket), _stop_receive, _receive_thread ("None" or the thread),
    \* _message_callback (set or not), the position of _receive_loop, the
    \* RFCOMM link, the sockets created and never closed, the call that is in
    \* its join, the last call that returned, and the calls made.
    bt_connected, bt_socket, bt_stop_receive, bt_receive_thread, bt_message_callback, bt_loop, link, unclosed, bt_call, bt_done, bt_calls

image_vars == <<original_size, image, phase, position, sent, nsent, announced,
                write_addr>>
backend_vars == <<driver, device_type, is_connected, start_time, message_count,
                  pending, arrived, uploads, last_reply, created, open>>
gui_vars == <<flash_in_progress, flash_response_data, flash_response_event,
              threads, total_messages, message_data>>
net_vars == <<net_connected, net_stop_receive, net_receive_thread,
              net_receive_callback, net_last_timestamp, loops, joining,
              returned, delivered, polls, calls, net_base_url, deletes,
              reconnect_failed>>
\* The drivers and the programs that are modelled on their own.
parse_vars == <<record, parsed>>
bt_vars == <<commands, socket_out, socket_in, pending_responses, command_results,
             issued, pushed>>
agg_vars == <<msg_table, frames_seen>>
dec_vars == <<dbc_database, decodes>>
ws_vars == <<active_connections, loop_set, tasks, sockets, ws_received, handed, since>>
conn_vars == <<bt_connected, bt_socket, bt_stop_receive, bt_receive_thread, bt_message_callback, bt_loop, link, unclosed, bt_call, bt_done, bt_calls>>
more == <<net_vars, parse_vars, bt_vars, agg_vars, dec_vars,
         ws_vars,
         conn_vars>>
\* The state the engine and the target never touch.
others == <<image_vars, backend_vars, gui_vars, more>>
job == <<file, module_number, verify, jump, batch_size>>
wait_vars == <<elapsed, wr_timeout, wr_ret, resp>>
write_vars == <<bytes_written, chunks_in_batch, outer, ack_count, ack_refs, nack_ref>>
verify_vars == <<bytes_verified, address, current_address, batch_reads, ri>>
target_vars == <<tmode, tresp, mem, taddr, ready_emitted>>
vars == <<job, pc, firmware_data, result, events, rx, bus, wait_vars,
          write_vars, verify_vars, target_vars, others>>

\* No image is held by its length.
NoImage ==
    /\ original_size = 0 /\ image = [len |-> 0, file_len |-> 0]
    /\ phase = "none" /\ position = 0 /\ sent = NoMsg /\ nsent = 0
    /\ announced = <<>> /\ write_addr = 0

EngineInit ==
    /\ file \in Images
    /\ module_number \in ModuleNumbers
    /\ verify \in BOOLEAN
    /\ jump \in BOOLEAN
    /\ batch_size \in 1..MaxBatch
    /\ pc = "start"
    /\ firmware_data = <<>>
    /\ result = FALSE
    /\ events = <<>>
    /\ rx = <<>>
    /\ bus = <<>>
    /\ elapsed = 0 /\ wr_timeout = 0 /\ wr_ret = "none" /\ resp = NoMsg
    /\ outer = 0 /\ ack_count = 0
    /\ bytes_written = 0 /\ chunks_in_batch = 0
    /\ bytes_verified = 0 /\ address = 0 /\ current_address = 0
    /\ batch_reads = <<>> /\ ri = 0
    /\ tmode \in {"app", "boot"}
    /\ tresp = <<>>
    /\ mem = [i \in 1..MemSize |-> 0]
    /\ taddr = -1
    /\ ready_emitted = FALSE
    /\ ack_refs = <<>>
    /\ nack_ref = 0

\* HTTPException status codes of the endpoints; NoReply: nothing returned yet.
NoReply == [kind |-> "none", status |-> 0, during_flash |-> FALSE]

\* CANBackend.__init__, and no request has reached the server.
NoBackend ==
    /\ driver = 0 /\ device_type = "none" /\ is_connected = FALSE
    /\ start_time = 0 /\ message_count = 0
    /\ pending = <<>> /\ arrived = 0 /\ uploads = 0 /\ last_reply = NoReply
    /\ created = 0 /\ open = {}

\* Threads the Flash and Erase buttons of the GUI start, and frames its
\* receive thread takes, in one run.
MaxJobs == 2
MaxReceived == 3
\* A thread of the GUI that has not been started, or has ended.
NoThread == [kind |-> "none", stage |-> "none", pc |-> "none", offset |-> 0]
Ended == [kind |-> "none", stage |-> "none", pc |-> "ended", offset |-> 0]
\* The rows message_data may hold: the bootloader and the other node.
TableIds == {CAN_BOOTLOADER_ID, CAN_HOST_ID + 256}

\* PCANExplorerGUI.__init__, lines 93-132.
NoGui ==
    /\ flash_in_progress = FALSE /\ flash_response_data = <<>>
    /\ flash_response_event = FALSE
    /\ threads = [t \in 1..MaxJobs |-> NoThread]
    /\ total_messages = 0
    /\ message_data = [i \in TableIds |-> 0]

\* Receive loops one NetworkCANDriver starts, non-empty poll responses, calls
\* made on the driver, timestamps 1..MaxTs of the frames of the server, and
\* frames in one poll response.
MaxLoops == 2
MaxPolls == 2
MaxCalls == 4
MaxTs == 2
MaxBatchLen == 2
\* A receive loop that has not been started.
NoLoop == [pc |-> "none", error_count |-> 0, messages |-> <<>>]

\* NetworkCANDriver.__init__, lines 60-71.
NoNet ==
    /\ net_connected = FALSE /\ net_stop_receive = FALSE
    /\ net_receive_thread = 0 /\ net_receive_callback = 0
    /\ net_last_timestamp = 0
    /\ loops = [l \in 1..MaxLoops |-> NoLoop]
    /\ joining = "none"
    /\ returned = {} /\ delivered = <<>> /\ polls = 0 /\ calls = 0
    /\ net_base_url = "http://host:port" /\ deletes = 0 /\ reconnect_failed = FALSE

\* A JSON value: its type and its content, a string being the sequence of
\* its character codes, an integer or a boolean a sequence of one number.
Json(type, v) == [type |-> type, v |-> v]
Absent == Json("none", <<>>)
\* No record has been parsed.
NotParsed == [by |-> "none", status |-> "none", id |-> 0, data |-> <<>>,
              dlc |-> 0, is_extended |-> FALSE]
NoRecord ==
    /\ record = [id |-> Absent, data |-> Absent, data_hex |-> Absent,
                 dlc |-> Absent, is_extended |-> Absent,
                 means |-> [id |-> 0, data |-> <<>>]]
    /\ parsed = NotParsed

\* No command is under way and nothing is on the socket.
Callers == 1..2
NoCommand == [pc |-> "idle", cmd |-> 0]
NoBt ==
    /\ commands = [c \in Callers |-> NoCommand]
    /\ socket_out = <<>>
    /\ socket_in = <<>>
    /\ pending_responses = <<>>
    /\ command_results = <<>>
    /\ issued = 0
    /\ pushed = 0
\* The ids of the frames the table is shown, and the table without rows.
AggIds == {256, 512}
NoRow == [type |-> "none", count |-> 0, data |-> <<>>]
NoAgg ==
    /\ msg_table = [i \in AggIds |-> NoRow]
    /\ frames_seen = <<>>
\* The frame ids of a DBC file's messages; no DBC file is loaded.
DbcIds == {256, 257}
NoMessage == [frame_id |-> -1, is_extended_frame |-> FALSE]
NoDec ==
    /\ dbc_database = [loaded |-> FALSE, messages |-> [i \in DbcIds |-> NoMessage]]
    /\ decodes = {}

\* No WebSocket client has come.
Subscribers == 1..2
NoWs ==
    /\ active_connections = <<>>
    /\ loop_set = FALSE
    /\ tasks = <<>>
    /\ sockets = [s \in Subscribers |-> "none"]
    /\ ws_received = [s \in Subscribers |-> <<>>]
    /\ handed = <<>>
    /\ since = [s \in Subscribers |-> 0]

\* Calls made on one BluetoothCANDriver.
MaxBtCalls == 4
\* No call is in a join; no call has returned.
NoCall == "none"
NoReturn == [op |-> "none", value |-> FALSE]
\* BluetoothCANDriver.__init__, lines 104-116.
NoConn ==
    /\ bt_connected = FALSE /\ bt_socket = "None"
    /\ bt_stop_receive = FALSE /\ bt_receive_thread = "None"
    /\ bt_message_callback = FALSE
    /\ bt_loop = "none"
    /\ link = "none"
    /\ unclosed = 0
    /\ bt_call = NoCall /\ bt_done = NoReturn
    /\ bt_calls = 0

NoMore == NoNet /\ NoRecord /\ NoBt /\ NoAgg /\ NoDec /\ NoWs /\ NoConn

Init == EngineInit /\ NoImage /\ NoBackend /\ NoGui /\ NoMore

(* ---------------- FirmwareFlasher helpers ------------------------------- *)
\* The FlashProgress record _report_progress builds; arg is the number the
\* message is formatted with (offset, address, version, error code), else 0.
Progress(stage, progress, message, arg) ==
    [stage |-> stage, progress |-> progress, message |-> message, arg |-> arg]

\* A stage returns False to flash_firmware, which returns False, after the
\* progress events evs.
ReturnFalse(evs) ==
    /\ events' = events \o evs
    /\ result' = FALSE
    /\ pc' = "done"

\* The except clause as it would be if it reported the failed stage too.
RaiseReportsTwice ==
    ReturnFalse(<<Progress("error", 0, "Stage failed", 0),
                  Progress("error", 0, "Error: exception", 0)>>)

\* An exception reaches the except clause of flash_firmware.
Raise == ReturnFalse(<<Progress("error", 0, "Error: exception", 0)>>)

\* _wait_response(timeout) is entered; it returns to ret.
CallWait(timeout, ret) ==
    /\ pc' = "wait"
    /\ wr_timeout' = timeout
    /\ wr_ret' = ret
    /\ elapsed' = 0
    /\ resp' = NoMsg

\* driver.send_message(frame) returning ok: the frame is on the bus.
Send(frame, ok) == bus' = IF ok THEN Append(bus, frame) ELSE bus

IsResponseAnyCode(msg, code) == msg # NoMsg
IsResponse(msg, code) == msg # NoMsg /\ msg.data[1] = code

(* ---------------- flash_firmware: load, reset --------------------------- *)
\* flash_firmware, lines 559-571: read the file, truncate, pad.
FlashStart ==
    /\ pc = "start"
    /\ firmware_data' = pad_to_4byte_boundary(Truncate(file))
    /\ events' = events
            \o <<Progress("write", 0, "Loading", 0)>>
            \o (IF Len(file) > APP_MAX_SIZE
                THEN <<Progress("write", 0, "Truncating", APP_MAX_SIZE)>>
                ELSE <<>>)
    /\ pc' = "reset"
    /\ UNCHANGED <<job, others, result, rx, bus, wait_vars, write_vars, verify_vars,
                   target_vars>>

\* send_reset_message up to its wait loop.
ResetSend ==
    /\ pc = "reset"
    /\ \/ /\ (module_number < 0 \/ module_number > 5)
          /\ ReturnFalse(<<Progress("error", 0, "Invalid module number", module_number)>>)
          /\ UNCHANGED <<bus, elapsed>>
       \/ /\ ~(module_number < 0 \/ module_number > 5)
          /\ \E ok \in BOOLEAN :
               /\ Send(ResetFrame(module_number), ok)
               /\ IF ok
                  THEN /\ events' = Append(events, Progress("reset", 0, "Resetting Module", module_number))
                       /\ pc' = "reset_wait"
                       /\ elapsed' = 0
                       /\ UNCHANGED result
                  ELSE /\ ReturnFalse(<<Progress("reset", 0, "Resetting Module", module_number),
                                        Progress("error", 0, "Failed to send reset message", 0)>>)
                       /\ UNCHANGED elapsed
    /\ UNCHANGED <<job, others, firmware_data, rx, wr_timeout, wr_ret, resp, write_vars,
                   verify_vars, target_vars>>

\* The frame ends the wait of send_reset_message (line 207-208).
IsReadyAnyFrame(msg) == msg.id = CAN_BOOTLOADER_ID
IsReady(msg) ==
    /\ msg.id = CAN_BOOTLOADER_ID
    /\ Len(msg.data) > 0
    /\ msg.data[1] = RESP_READY

\* send_reset_message, the loop of lines 204-214.
ResetWait ==
    /\ pc = "reset_wait"
    /\ \/ /\ elapsed >= RESET_WAIT
          /\ ReturnFalse(<<Progress("error", 0, "No READY message from bootloader", 0)>>)
          /\ UNCHANGED rx
       \/ /\ elapsed < RESET_WAIT
          /\ rx # <<>>
          /\ rx' = Tail(rx)
          /\ LET msg == Head(rx) IN
             IF IsReady(msg)
             THEN /\ events' = Append(events,
                        Progress("reset", 100, "Bootloader ready",
                                 IF Len(msg.data) > 1 THEN msg.data[2] ELSE 0))
                  /\ pc' = "sleep"
                  /\ UNCHANGED result
             ELSE UNCHANGED <<events, pc, result>>
    /\ UNCHANGED <<job, others, firmware_data, bus, wait_vars, write_vars, verify_vars,
                   target_vars>>

\* flash_firmware line 577: time.sleep(0.5).
Sleep ==
    /\ pc = "sleep"
    /\ pc' = "erase"
    /\ UNCHANGED <<job, others, firmware_data, result, events, rx, bus, wait_vars,
                   write_vars, verify_vars, target_vars>>

(* ---------------- _wait_response ---------------------------------------- *)
\* One iteration of the loop of _wait_response (lines 150-177): the timeout
\* has passed, or read_message returns the head of the queue.  With the
\* queue empty the engine is blocked in read_message until a frame arrives
\* or time passes.
WaitResponse ==
    /\ pc = "wait"
    /\ \/ /\ elapsed >= wr_timeout
          /\ resp' = NoMsg
          /\ pc' = wr_ret
          /\ UNCHANGED <<rx, events, result>>
       \/ /\ elapsed < wr_timeout
          /\ rx # <<>>
          /\ rx' = Tail(rx)
          /\ LET msg == Head(rx) IN
             IF msg.id = CAN_BOOTLOADER_ID
             THEN IF IsHeartbeat(msg.data)
                  THEN UNCHANGED <<resp, pc, events, result>>
                  ELSE IF Len(msg.data) = 0
                       THEN Raise /\ UNCHANGED resp    \* msg.data[0], line 173
                       ELSE /\ resp' = msg
                            /\ pc' = wr_ret
                            /\ UNCHANGED <<events, result>>
             ELSE UNCHANGED <<resp, pc, events, result>>
    /\ UNCHANGED <<job, others, firmware_data, bus, elapsed, wr_timeout, wr_ret,
                   write_vars, verify_vars, target_vars>>

(* ---------------- erase_flash ------------------------------------------- *)
\* erase_flash, lines 218-227.
EraseSend ==
    /\ pc = "erase"
    /\ \E ok \in BOOLEAN :
         /\ Send(CommandFrame(CMD_ERASE_FLASH, <<>>), ok)
         /\ IF ok
            THEN /\ events' = Append(events, Progress("erase", 0, "Erasing flash memory", 0))
                 /\ CallWait(ERASE_TIMEOUT, "erase_resp")
                 /\ UNCHANGED result
            ELSE /\ ReturnFalse(<<Progress("erase", 0, "Erasing flash memory", 0),
                                  Progress("error", 0, "Failed to send erase command", 0)>>)
                 /\ UNCHANGED wait_vars
    /\ UNCHANGED <<job, others, firmware_data, rx, write_vars, verify_vars, target_vars>>

\* erase_flash accepts the response (line 240).
EraseAckedAnyResponse(msg) == msg # NoMsg
EraseAcked(msg) == IsResponse(msg, RESP_ACK)

\* erase_flash, lines 231-254.
EraseResp ==
    /\ pc = "erase_resp"
    /\ IF EraseAcked(resp)
       THEN /\ events' = Append(events, Progress("erase", 100, "Flash erased successfully", 0))
            /\ pc' = "write"
            /\ UNCHANGED result
       ELSE IF resp = NoMsg
            THEN ReturnFalse(<<Progress("error", 0, "Erase timeout", 0)>>)
            ELSE IF resp.data[1] = RESP_NACK
                 THEN ReturnFalse(<<Progress("error", 0, "Erase failed",
                                    IF Len(resp.data) > 1 THEN resp.data[2] ELSE 0)>>)
                 ELSE ReturnFalse(<<Progress("error", 0, "Unexpected erase response",
                                    resp.data[1])>>)
    /\ UNCHANGED <<job, others, firmware_data, rx, bus, wait_vars, write_vars,
                   verify_vars, target_vars>>

(* ---------------- write_firmware, set_address --------------------------- *)
\* write_firmware, line 368.
WriteStart ==
    /\ pc = "write"
    /\ events' = Append(events, Progress("write", 0, "Writing firmware", 0))
    /\ pc' = "flush_write"
    /\ UNCHANGED <<job, others, firmware_data, result, rx, bus, wait_vars, write_vars,
                   verify_vars, target_vars>>

\* write_firmware, the loop of lines 373-378: read until read_message
\* returns None.  There is no timeout and no limit on the reads.
FlushWrite ==
    /\ pc = "flush_write"
    /\ IF rx # <<>>
       THEN rx' = Tail(rx) /\ UNCHANGED pc
       ELSE pc' = "flush_addr" /\ UNCHANGED rx
    /\ UNCHANGED <<job, others, firmware_data, result, events, bus, wait_vars,
                   write_vars, verify_vars, target_vars>>

\* set_address, the loop of lines 261-268, the same without a limit.
FlushAddr ==
    /\ pc = "flush_addr"
    /\ IF rx # <<>>
       THEN rx' = Tail(rx) /\ UNCHANGED pc
       ELSE pc' = "addr_send" /\ UNCHANGED rx
    /\ UNCHANGED <<job, others, firmware_data, result, events, bus, wait_vars,
                   write_vars, verify_vars, target_vars>>

\* write_firmware line 384-385: set_address returned False.
AddrFailed == ReturnFalse(<<Progress("error", 0, "Failed to set initial address", 0)>>)

\* set_address, lines 271-287.
AddrSend ==
    /\ pc = "addr_send"
    /\ \E ok \in BOOLEAN :
         /\ Send(CommandFrame(CMD_SET_ADDRESS, addr_bytes(APP_START_ADDRESS)), ok)
         /\ IF ok
            THEN /\ pc' = "addr_wait"
                 /\ elapsed' = 0
                 /\ UNCHANGED <<events, result>>
            ELSE AddrFailed /\ UNCHANGED elapsed
    /\ UNCHANGED <<job, others, firmware_data, rx, wr_timeout, wr_ret, resp, write_vars,
                   verify_vars, target_vars>>

\* set_address, the loop of lines 289-313, then write_firmware lines 383-389.
AddrWait ==
    /\ pc = "addr_wait"
    /\ \/ /\ elapsed >= SET_ADDRESS_WAIT
          /\ AddrFailed
          /\ UNCHANGED <<rx, bytes_written, chunks_in_batch>>
       \/ /\ elapsed < SET_ADDRESS_WAIT
          /\ rx # <<>>
          /\ rx' = Tail(rx)
          /\ LET msg == Head(rx) IN
             IF msg.id = CAN_BOOTLOADER_ID /\ ~IsHeartbeat(msg.data)
             THEN IF Len(msg.data) = 0
                  THEN Raise /\ UNCHANGED <<bytes_written, chunks_in_batch>>  \* line 309
                  ELSE IF msg.data[1] = RESP_ACK
                       THEN /\ pc' = "write_loop"
                            /\ bytes_written' = 0
                            /\ chunks_in_batch' = 0
                            /\ UNCHANGED <<events, result>>
                       ELSE AddrFailed /\ UNCHANGED <<bytes_written, chunks_in_batch>>
             ELSE UNCHANGED <<pc, events, result, bytes_written, chunks_in_batch>>
    /\ UNCHANGED <<job, others, firmware_data, bus, wait_vars, outer, ack_count,
                   ack_refs, nack_ref, verify_vars, target_vars>>

\* write_firmware lines 393-398: the next chunk, padded to 4 bytes.
Chunk(data, written) ==
    LET chunk == Slice(data, written, Min(written + WRITE_CHUNK_SIZE, Len(data)))
    IN  chunk \o [i \in 1..(4 - Len(chunk)) |-> PAD_BYTE]

\* write_firmware lines 401-402.
wait_for_ack_late(in_batch, size, written, total) ==
    (in_batch >= size) \/ (written + WRITE_CHUNK_SIZE >= total)
wait_for_ack(in_batch, size, written, total) ==
    (in_batch >= size - 1) \/ (written + WRITE_CHUNK_SIZE >= total)

\* write_firmware line 421: int((bytes_written * 100) / total_bytes)
Percent(done, total) == (done * 100) \div total

\* write_firmware, one iteration of the loop of lines 391-409 up to the
\* check of the batch, or the end of the loop (lines 428-433) and
\* flash_firmware lines 588-593.
WriteChunk ==
    /\ pc = "write_loop"
    /\ LET total_bytes == Len(firmware_data) IN
       IF bytes_written < total_bytes
       THEN \E ok \in BOOLEAN :
              /\ Send(CommandFrame(CMD_WRITE_DATA,
                                   <<4>> \o Chunk(firmware_data, bytes_written)), ok)
              /\ IF ok
                 THEN /\ bytes_written' = bytes_written + 4
                      /\ chunks_in_batch' = chunks_in_batch + 1
                      /\ UNCHANGED result
                      /\ IF wait_for_ack(chunks_in_batch, batch_size,
                                         bytes_written, total_bytes)
                         THEN /\ pc' = "acks"
                              /\ ack_count' = 0
                              /\ outer' = 0
                              /\ UNCHANGED events
                         ELSE /\ events' = Append(events,
                                    Progress("write", Percent(bytes_written + 4, total_bytes),
                                             "Writing", bytes_written + 4))
                              /\ UNCHANGED <<pc, ack_count, outer>>
                 ELSE /\ ReturnFalse(<<Progress("error", 0, "Write failed at offset",
                                                bytes_written)>>)
                      /\ UNCHANGED <<bytes_written, chunks_in_batch, ack_count, outer>>
       ELSE /\ events' = Append(events, Progress("write", 100, "Write complete", total_bytes))
            /\ pc' = IF verify THEN "verify" ELSE IF jump THEN "jump" ELSE "complete"
            /\ UNCHANGED <<bus, result, bytes_written, chunks_in_batch, ack_count, outer>>
    /\ UNCHANGED <<job, others, firmware_data, rx, wait_vars, ack_refs, nack_ref,
                   verify_vars, target_vars>>

\* read_pending_acks, the head of the loop of line 346 and the call of
\* _wait_response of lines 347-348.
AcksLoop ==
    /\ pc = "acks"
    /\ IF ack_count < chunks_in_batch /\ outer < ACK_WINDOW
       THEN CallWait(Min(ACK_POLL, ACK_WINDOW - outer), "acks_resp")
       ELSE pc' = "acks_done" /\ UNCHANGED wait_vars
    /\ UNCHANGED <<job, others, firmware_data, result, events, rx, bus, write_vars,
                   verify_vars, target_vars>>

\* read_pending_acks, lines 350-359.
AcksResp ==
    /\ pc = "acks_resp"
    /\ IF resp = NoMsg
       THEN /\ pc' = "acks_done"
            /\ UNCHANGED <<events, ack_count, ack_refs, nack_ref>>
       ELSE IF resp.data[1] = RESP_ACK
            THEN /\ ack_count' = ack_count + 1
                 /\ ack_refs' = Append(ack_refs, resp.ref)
                 /\ pc' = "acks"
                 /\ UNCHANGED <<events, nack_ref>>
            ELSE IF resp.data[1] = RESP_NACK
                 THEN /\ events' = Append(events, Progress("error", 0, "Write failed",
                                      IF Len(resp.data) > 1 THEN resp.data[2] ELSE 0))
                      /\ ack_count' = -1
                      /\ nack_ref' = resp.ref
                      /\ pc' = "acks_done"
                      /\ UNCHANGED ack_refs
                 ELSE /\ pc' = "acks"
                      /\ UNCHANGED <<events, ack_count, ack_refs, nack_ref>>
    /\ UNCHANGED <<job, others, firmware_data, result, rx, bus, wait_vars,
                   bytes_written, chunks_in_batch, outer, verify_vars, target_vars>>

\* write_firmware line 414.
AckMismatchNackOnly(count, in_batch) == count < 0
AckMismatch(count, in_batch) == count < 0 \/ count # in_batch

\* write_firmware, lines 413-426.
AcksDone ==
    /\ pc = "acks_done"
    /\ IF AckMismatch(ack_count, chunks_in_batch)
       THEN /\ ReturnFalse(<<Progress("error", 0, "ACK mismatch at offset",
                              bytes_written - chunks_in_batch * WRITE_CHUNK_SIZE)>>)
            /\ UNCHANGED chunks_in_batch
       ELSE /\ chunks_in_batch' = 0
            /\ events' = Append(events,
                   Progress("write", Percent(bytes_written, Len(firmware_data)),
                            "Writing", bytes_written))
            /\ pc' = "write_loop"
            /\ UNCHANGED result
    /\ UNCHANGED <<job, others, firmware_data, rx, bus, wait_vars, bytes_written, outer,
                   ack_count, ack_refs, nack_ref, verify_vars, target_vars>>

(* ---------------- verify_flash ------------------------------------------ *)
\* verify_flash, lines 437-442.
VerifyStart ==
    /\ pc = "verify"
    /\ events' = Append(events, Progress("verify", 0, "Verifying flash", 0))
    /\ address' = APP_START_ADDRESS
    /\ current_address' = APP_START_ADDRESS
    /\ bytes_verified' = 0
    /\ batch_reads' = <<>>
    /\ ri' = 0
    /\ pc' = "verify_loop"
    /\ UNCHANGED <<job, others, firmware_data, result, rx, bus, wait_vars, write_vars,
                   target_vars>>

\* verify_flash, the loop of lines 449-463: at most n read requests from
\* offset verified (address addr) of an image of total bytes.
RECURSIVE BuildBatch(_, _, _, _)
BuildBatch(n, verified, addr, total) ==
    IF n = 0 \/ verified >= total
    THEN <<>>
    ELSE LET read_size == Min(VERIFY_CHUNK, total - verified)
         IN  <<[address |-> addr, size |-> read_size, offset |-> verified]>>
             \o BuildBatch(n - 1, verified + read_size, addr + read_size, total)

RECURSIVE SumSizes(_)
SumSizes(reads) ==
    IF reads = <<>> THEN 0 ELSE Head(reads).size + SumSizes(Tail(reads))

\* verify_flash, lines 444-463, or the end of its loop (lines 506-508) and
\* flash_firmware line 593.
VerifyBatch ==
    /\ pc = "verify_loop"
    /\ LET total == Len(firmware_data) IN
       IF bytes_verified < total
       THEN LET reads == BuildBatch(batch_size, bytes_verified, address, total) IN
            /\ batch_reads' = reads
            /\ bytes_verified' = bytes_verified + SumSizes(reads)
            /\ current_address' = address + SumSizes(reads)
            /\ ri' = 1
            /\ pc' = "verify_send"
            /\ UNCHANGED <<events, address>>
       ELSE /\ events' = Append(events, Progress("verify", 100, "Verification successful", total))
            /\ pc' = IF jump THEN "jump" ELSE "complete"
            /\ UNCHANGED verify_vars
    /\ UNCHANGED <<job, others, firmware_data, result, rx, bus, wait_vars, write_vars,
                   target_vars>>

\* verify_flash, the loop of lines 466-477.
VerifySend ==
    /\ pc = "verify_send"
    /\ IF ri <= Len(batch_reads)
       THEN LET read_info == batch_reads[ri] IN
            \E ok \in BOOLEAN :
              /\ Send(CommandFrame(CMD_READ_FLASH,
                        addr_bytes(read_info.address) \o <<read_info.size>>), ok)
              /\ IF ok
                 THEN /\ ri' = ri + 1
                      /\ UNCHANGED <<pc, events, result>>
                 ELSE /\ ReturnFalse(<<Progress("error", 0, "Failed to send read",
                                                read_info.address)>>)
                      /\ UNCHANGED ri
       ELSE /\ ri' = 1
            /\ pc' = "verify_read"
            /\ UNCHANGED <<bus, events, result>>
    /\ UNCHANGED <<job, others, firmware_data, rx, wait_vars, write_vars, bytes_verified,
                   address, current_address, batch_reads, target_vars>>

\* verify_flash, line 481, or the end of the batch (lines 496-504).
VerifyRead ==
    /\ pc = "verify_read"
    /\ IF ri <= Len(batch_reads)
       THEN /\ CallWait(VERIFY_WAIT, "verify_resp")
            /\ UNCHANGED <<events, address>>
       ELSE /\ address' = current_address
            /\ events' = Append(events,
                   Progress("verify", Percent(bytes_verified, Len(firmware_data)),
                            "Verifying", bytes_verified))
            /\ pc' = "verify_loop"
            /\ UNCHANGED wait_vars
    /\ UNCHANGED <<job, others, firmware_data, result, rx, bus, write_vars,
                   bytes_verified, current_address, batch_reads, ri, target_vars>>

\* verify_flash lines 488-491: the bytes read equal the bytes expected.
ReadMatchesFirstByte(msg, read_info, expected_data) ==
    Slice(msg.data, 1, 2) = Slice(expected_data, read_info.offset, read_info.offset + 1)
ReadMatches(msg, read_info, expected_data) ==
    Slice(msg.data, 1, 1 + read_info.size)
        = Slice(expected_data, read_info.offset, read_info.offset + read_info.size)

\* verify_flash, lines 483-494.
VerifyResp ==
    /\ pc = "verify_resp"
    /\ LET read_info == batch_reads[ri] IN
       IF resp = NoMsg \/ Len(resp.data) = 0 \/ resp.data[1] # RESP_DATA
       THEN /\ ReturnFalse(<<Progress("error", 0, "Failed to read", read_info.address)>>)
            /\ UNCHANGED ri
       ELSE IF ~ReadMatches(resp, read_info, firmware_data)
            THEN /\ ReturnFalse(<<Progress("error", 0, "Verification failed",
                                           read_info.address)>>)
                 /\ UNCHANGED ri
            ELSE /\ ri' = ri + 1
                 /\ pc' = "verify_read"
                 /\ UNCHANGED <<events, result>>
    /\ UNCHANGED <<job, others, firmware_data, rx, bus, wait_vars, write_vars,
                   bytes_verified, address, current_address, batch_reads, target_vars>>

(* ---------------- jump_to_application, end of flash_firmware ------------ *)
\* flash_firmware line 595: jump_to_application returned False.
JumpMayHaveFailed == Progress("error", 0, "Jump command may have failed", 0)

\* jump_to_application, lines 512-518.
JumpSend ==
    /\ pc = "jump"
    /\ \E ok \in BOOLEAN :
         /\ Send(CommandFrame(CMD_JUMP_TO_APP, <<>>), ok)
         /\ IF ok
            THEN /\ events' = Append(events, Progress("jump", 0, "Starting application", 0))
                 /\ CallWait(JUMP_WAIT, "jump_resp")
            ELSE /\ events' = events \o
                       <<Progress("jump", 0, "Starting application", 0),
                         Progress("error", 0, "Failed to send jump command", 0),
                         JumpMayHaveFailed>>
                 /\ pc' = "complete"
                 /\ UNCHANGED wait_vars
    /\ UNCHANGED <<job, others, firmware_data, result, rx, write_vars, verify_vars,
                   target_vars>>

\* jump_to_application, lines 520-531, and flash_firmware lines 594-595.
JumpResp ==
    /\ pc = "jump_resp"
    /\ events' = events \o
         (IF IsResponse(resp, RESP_ACK)
          THEN <<Progress("jump", 100, "Application started", 0)>>
          ELSE IF IsResponse(resp, RESP_NACK)
               THEN <<Progress("error", 0, "Jump failed",
                               IF Len(resp.data) > 1 THEN resp.data[2] ELSE 0),
                      JumpMayHaveFailed>>
               ELSE <<Progress("jump", 100, "Jump command sent", 0)>>)
    /\ pc' = "complete"
    /\ UNCHANGED <<job, others, firmware_data, result, rx, bus, wait_vars, write_vars,
                   verify_vars, target_vars>>

\* flash_firmware, lines 597-598.
Complete ==
    /\ pc = "complete"
    /\ events' = Append(events, Progress("complete", 100, "Flashing completed successfully", 0))
    /\ result' = TRUE
    /\ pc' = "done"
    /\ UNCHANGED <<job, others, firmware_data, rx, bus, wait_vars, write_vars,
                   verify_vars, target_vars>>

Engine ==
    \/ FlashStart \/ ResetSend \/ ResetWait \/ Sleep
    \/ WaitResponse
    \/ EraseSend \/ EraseResp
    \/ WriteStart \/ FlushWrite \/ FlushAddr \/ AddrSend \/ AddrWait
    \/ WriteChunk \/ AcksLoop \/ AcksResp \/ AcksDone
    \/ VerifyStart \/ VerifyBatch \/ VerifySend \/ VerifyRead \/ VerifyResp
    \/ JumpSend \/ JumpResp \/ Complete

(* ---------------- time --------------------------------------------------- *)
\* The timeout of the wait loop the engine is in.
LoopTimeout ==
    CASE pc = "reset_wait" -> RESET_WAIT
      [] pc = "addr_wait" -> SET_ADDRESS_WAIT
      [] pc = "wait" -> wr_timeout
      [] OTHER -> 0

\* Tick ms pass while the engine is in a wait loop (time.time() advances).
TimePasses ==
    /\ pc \in {"reset_wait", "addr_wait", "wait"}
    /\ elapsed < LoopTimeout
    /\ elapsed' = elapsed + Tick
    /\ outer' = IF pc = "wait" /\ wr_ret = "acks_resp" THEN outer + Tick ELSE outer
    /\ UNCHANGED <<job, others, pc, firmware_data, result, events, rx, bus, wr_timeout,
                   wr_ret, resp, ack_count, bytes_written, chunks_in_batch,
                   ack_refs, nack_ref, verify_vars, target_vars>>

(* ---------------- the bootloader target and the bus --------------------- *)
\* Frames of the target (spec 4.D): ACK, NACK(code), the canonical heartbeat,
\* the boot notice (READY with a version), DATA.
TargetFrame(data, ref) == [id |-> CAN_BOOTLOADER_ID, data |-> data, ref |-> ref]
AckData == Pad8(<<RESP_ACK>>)
NackData(code) == Pad8(<<RESP_NACK, code>>)
HeartbeatData == Pad8(<<RESP_READY, 1, 0>>)
BootNoticeData == Pad8(<<RESP_READY, 7, 0>>)

\* Frames that reach the receive queue from elsewhere: a frame of another
\* node of the bus, and a frame with the target's ID and no data (DLC 0).
OTHER_NODE_ID == CAN_HOST_ID + 256
\* The arbitration ID of the frame a client asks the server to send.
USER_FRAME_ID == 291
NoiseFrames ==
    { [id |-> OTHER_NODE_ID, data |-> BootNoticeData, ref |-> 0],
      [id |-> CAN_BOOTLOADER_ID, data |-> <<>>, ref |-> 0] }

\* Big-endian address of a SET_ADDRESS or READ_FLASH command.
CommandAddress(data) ==
    data[2] * 16777216 + data[3] * 65536 + data[4] * 256 + data[5]

\* A write that went wrong in the flash: one byte differs from the chunk.
Corrupted(chunk) ==
    { [chunk EXCEPT ![i] = (chunk[i] + 1) % 256] : i \in {1, 4} }

\* What the target may do with the command cmd at position idx of the bus:
\* the set of <<frame it sends or NoMsg, its mode, its flash, its pointer>>.
Reactions(cmd, idx) ==
    LET reply(data) == TargetFrame(data, idx)
        stay(frame) == <<frame, tmode, mem, taddr>>
        code == cmd.data[1]
    IN
    IF cmd.id = USER_FRAME_ID
    THEN \* a frame of the user: not for the target
         {stay(NoMsg)}
    ELSE IF cmd.id # CAN_HOST_ID
    THEN \* the reset frame of the module: it restarts in the bootloader
         { <<f, "boot", mem, -1>> :
             f \in {reply(BootNoticeData), reply(HeartbeatData), NoMsg} }
    ELSE IF tmode # "boot"
    THEN {stay(NoMsg)}
    ELSE IF code = CMD_ERASE_FLASH
    THEN { <<reply(AckData), tmode, [i \in 1..MemSize |-> PAD_BYTE], taddr>>,
           stay(reply(NackData(3))), stay(NoMsg) }
    ELSE IF code = CMD_SET_ADDRESS
    THEN LET off == CommandAddress(cmd.data) - APP_START_ADDRESS IN
         IF off >= 0 /\ off < MemSize
         THEN { <<reply(AckData), tmode, mem, off>>,
                stay(reply(NackData(2))), stay(NoMsg) }
         ELSE { stay(reply(NackData(2))) }
    ELSE IF code = CMD_WRITE_DATA
    THEN LET chunk == SubSeq(cmd.data, 3, 6) IN
         IF taddr >= 0 /\ taddr + 4 <= MemSize
         THEN { <<reply(AckData), tmode,
                  [i \in 1..MemSize |->
                     IF i > taddr /\ i <= taddr + 4 THEN c[i - taddr] ELSE mem[i]],
                  taddr + 4>> : c \in {chunk} \cup Corrupted(chunk) }
              \cup { stay(reply(NackData(4))), stay(NoMsg) }
         ELSE { stay(reply(NackData(2))) }
    ELSE IF code = CMD_READ_FLASH
    THEN LET off == CommandAddress(cmd.data) - APP_START_ADDRESS
             size == cmd.data[6]
         IN
         IF off >= 0 /\ size >= 1 /\ size <= 7 /\ off + size <= MemSize
         THEN { stay(reply(Pad8(<<RESP_DATA>> \o SubSeq(mem, off + 1, off + size)))),
                stay(reply(<<RESP_DATA>> \o SubSeq(mem, off + 1, off + size - 1))),
                stay(reply(NackData(2))), stay(NoMsg) }
         ELSE { stay(reply(NackData(2))) }
    ELSE IF code = CMD_JUMP_TO_APP
    THEN { <<reply(AckData), "app", mem, taddr>>,
           <<NoMsg, "app", mem, taddr>>,
           stay(reply(NackData(6))) }
    ELSE { stay(reply(NackData(1))) }

\* The target handles the next command of the bus.
\* Frames reach the receive queue: flash_firmware has been called and has not
\* returned, or the GUI holds the driver (pc is "gui").
Listening == pc \notin {"idle", "done"}

TargetStep ==
    /\ Listening
    /\ Len(tresp) < Len(bus)
    /\ LET idx == Len(tresp) + 1 IN
       \E r \in Reactions(bus[idx], idx) :
         /\ r[1] # NoMsg => Len(rx) < MaxQueue
         /\ rx' = IF r[1] # NoMsg THEN Append(rx, r[1]) ELSE rx
         /\ tresp' = Append(tresp, r[1])
         /\ tmode' = r[2]
         /\ mem' = r[3]
         /\ taddr' = r[4]
         /\ ready_emitted' = (ready_emitted \/ IsReady(r[1]))
    /\ UNCHANGED <<job, others, pc, firmware_data, result, events, bus, wait_vars,
                   write_vars, verify_vars>>

\* The bootloader sends its periodic heartbeat.
Heartbeat ==
    /\ Listening
    /\ tmode = "boot"
    /\ Len(rx) < MaxQueue
    /\ rx' = Append(rx, TargetFrame(HeartbeatData, 0))
    /\ ready_emitted' = TRUE
    /\ UNCHANGED <<job, others, pc, firmware_data, result, events, bus, wait_vars,
                   write_vars, verify_vars, tmode, tresp, mem, taddr>>

\* Another frame reaches the receive queue.
BusNoise ==
    /\ Listening
    /\ Len(rx) < MaxQueue
    /\ \E f \in NoiseFrames : rx' = Append(rx, f)
    /\ UNCHANGED <<job, others, pc, firmware_data, result, events, bus, wait_vars,
                   write_vars, verify_vars, target_vars>>

Next == Engine \/ TimePasses \/ TargetStep \/ Heartbeat \/ BusNoise

Spec == Init /\ [][Next]_vars

\* The engine keeps running and time keeps passing; nothing is assumed of
\* the target or of the other nodes of the bus.
InitLive ==
    /\ Init
    /\ Len(file) = 1 /\ module_number = 3 /\ verify /\ jump /\ batch_size = 1
    /\ tmode = "boot"
FairSpec ==
    InitLive /\ [][Next]_vars /\ WF_vars(Engine) /\ WF_vars(TimePasses)

(* ---------------- flash_firmware on images of any size ------------------ *)
\* The engine above holds the image byte by byte, which keeps its images
\* short.  Here flash_firmware runs on images of the size of the application
\* flash: an image is held as [len, file_len], its bytes 0..file_len-1 being
\* the bytes of the file and its bytes file_len..len-1 the 0xFF of the
\* padding, and every response of the target is the one that lets the job
\* go on.

\* The byte at position i of the firmware file.
FileByte(i) == (7 * i + 3) % 251

ImageByte(img, i) == IF i < img.file_len THEN FileByte(i) ELSE PAD_BYTE

\* img[lo:hi]
ImageSlice(img, lo, hi) ==
    [k \in 1..(Min(hi, img.len) - lo) |-> ImageByte(img, lo + k - 1)]

\* firmware_data[:APP_MAX_SIZE]
ImageKeepAll(img) == img
ImageTruncate(img) ==
    [len |-> Min(img.len, APP_MAX_SIZE), file_len |-> Min(img.file_len, APP_MAX_SIZE)]

\* pad_to_4byte_boundary
ImagePad(img) ==
    LET padding_needed == (4 - (img.len % 4)) % 4
    IN  [img EXCEPT !.len = @ + padding_needed]

\* flash_firmware lines 559-566: the progress events of the load.
LoadEventsSilent(size) == <<Progress("write", 0, "Loading", 0)>>
LoadEvents(size) ==
    <<Progress("write", 0, "Loading", 0)>>
    \o (IF size > APP_MAX_SIZE
        THEN <<Progress("write", 0, "Truncating", APP_MAX_SIZE)>>
        ELSE <<>>)

ImageSizes == (0..MaxExcess) \cup ((APP_MAX_SIZE - 1)..(APP_MAX_SIZE + MaxExcess))

ImageInit ==
    /\ original_size \in ImageSizes
    /\ image = [len |-> original_size, file_len |-> original_size]
    /\ phase = "load" /\ position = 0 /\ sent = NoMsg /\ nsent = 0
    /\ announced = <<>> /\ write_addr = 0

\* The engine that holds its image byte by byte, and its target, stand still.
EngineIdle ==
    UNCHANGED <<job, pc, firmware_data, result, events, rx, bus, wait_vars,
                write_vars, verify_vars, target_vars, backend_vars, gui_vars,
                more>>

\* _send_command or send_message hands the frame to the driver.
ImSend(frame) == sent' = frame /\ nsent' = nsent + 1

\* flash_firmware, lines 559-571.
ImLoad ==
    /\ phase = "load"
    /\ announced' = LoadEvents(original_size)
    /\ image' = ImagePad(IF original_size > APP_MAX_SIZE
                        THEN ImageTruncate(image) ELSE image)
    /\ phase' = "reset"
    /\ UNCHANGED <<original_size, position, sent, nsent, write_addr>>
    /\ EngineIdle

\* send_reset_message and erase_flash: the reset frame, then ERASE_FLASH.
ImReset ==
    /\ phase \in {"reset", "erase"}
    /\ IF phase = "reset"
       THEN ImSend(ResetFrame(module_number)) /\ phase' = "erase"
       ELSE ImSend(CommandFrame(CMD_ERASE_FLASH, <<>>)) /\ phase' = "set_address"
    /\ UNCHANGED <<original_size, image, position, announced, write_addr>>
    /\ EngineIdle

\* write_firmware line 383 and set_address lines 271-279.
ImSetAddress ==
    /\ phase = "set_address"
    /\ ImSend(CommandFrame(CMD_SET_ADDRESS, addr_bytes(APP_START_ADDRESS)))
    /\ position' = 0
    /\ phase' = "write"
    /\ UNCHANGED <<original_size, image, announced, write_addr>>
    /\ EngineIdle

\* write_firmware, one iteration of the loop of lines 391-409 (the target
\* stores the chunk at its pointer, which SET_ADDRESS set and every chunk
\* moves by 4), or its end.
ImWrite ==
    /\ phase = "write"
    /\ IF position < image.len
       THEN LET chunk == ImageSlice(image, position,
                                    Min(position + WRITE_CHUNK_SIZE, image.len))
            IN  /\ ImSend(CommandFrame(CMD_WRITE_DATA,
                        <<4>> \o chunk \o [i \in 1..(4 - Len(chunk)) |-> PAD_BYTE]))
                /\ write_addr' = APP_START_ADDRESS + position
                /\ position' = position + 4
                /\ UNCHANGED phase
       ELSE /\ phase' = "verify"
            /\ position' = 0
            /\ UNCHANGED <<sent, nsent, write_addr>>
    /\ UNCHANGED <<original_size, image, announced>>
    /\ EngineIdle

\* verify_flash, one read request of lines 449-477, or its end.
ImRead ==
    /\ phase = "verify"
    /\ IF position < image.len
       THEN LET read_info ==
                  BuildBatch(1, position, APP_START_ADDRESS + position, image.len)[1]
            IN  /\ ImSend(CommandFrame(CMD_READ_FLASH,
                        addr_bytes(read_info.address) \o <<read_info.size>>))
                /\ position' = position + read_info.size
                /\ UNCHANGED phase
       ELSE /\ phase' = "jump"
            /\ UNCHANGED <<position, sent, nsent>>
    /\ UNCHANGED <<original_size, image, announced, write_addr>>
    /\ EngineIdle

\* jump_to_application, line 514.
ImJump ==
    /\ phase = "jump"
    /\ ImSend(CommandFrame(CMD_JUMP_TO_APP, <<>>))
    /\ phase' = "end"
    /\ UNCHANGED <<original_size, image, position, announced, write_addr>>
    /\ EngineIdle

ImageNext == ImLoad \/ ImReset \/ ImSetAddress \/ ImWrite \/ ImRead \/ ImJump

ImageStart ==
    /\ EngineInit
    /\ file = <<>> /\ module_number = 3 /\ verify /\ jump /\ batch_size = 1
    /\ tmode = "boot"
    /\ ImageInit
    /\ NoBackend
    /\ NoGui
    /\ NoMore
ImageSpec == ImageStart /\ [][ImageNext]_vars

(* ======================================================================== *)
(* What the claims speak of                                                 *)
(* ======================================================================== *)
IsPrefix(s, t) == Len(s) <= Len(t) /\ s = SubSeq(t, 1, Len(s))

\* The image the job is to flash: the file cut at APP_MAX_SIZE and padded
\* with 0xFF to a multiple of 4.
PaddedLen == 4 * ((Min(Len(file), APP_MAX_SIZE) + 3) \div 4)
PaddedImage ==
    [i \in 1..PaddedLen |->
        IF i <= Min(Len(file), APP_MAX_SIZE) THEN file[i] ELSE PAD_BYTE]
NumChunks == PaddedLen \div 4
NumSpans == (PaddedLen + 6) \div 7

ExpectedWrite(k) ==
    CommandFrame(CMD_WRITE_DATA, <<4>> \o SubSeq(PaddedImage, 4 * k - 3, 4 * k))
ExpectedRead(k) ==
    CommandFrame(CMD_READ_FLASH,
        addr_bytes(APP_START_ADDRESS + 7 * (k - 1))
            \o <<Min(7, PaddedLen - 7 * (k - 1))>>)
\* The span of the image the k-th READ_FLASH asks for.
ExpectedSpan(k) == SubSeq(PaddedImage, 7 * k - 6, Min(7 * k, PaddedLen))

\* All the frames of a job that runs to its end, in order.
ExpectedBus ==
    <<ResetFrame(module_number),
      CommandFrame(CMD_ERASE_FLASH, <<>>),
      CommandFrame(CMD_SET_ADDRESS, addr_bytes(APP_START_ADDRESS))>>
    \o [k \in 1..NumChunks |-> ExpectedWrite(k)]
    \o (IF verify THEN [k \in 1..NumSpans |-> ExpectedRead(k)] ELSE <<>>)
    \o (IF jump THEN <<CommandFrame(CMD_JUMP_TO_APP, <<>>)>> ELSE <<>>)

\* Positions on the bus.
FirstWrite == 3 + 1
FirstRead == 4 + NumChunks
IsCommand(i, code) ==
    i \in 1..Len(bus) /\ bus[i].id = CAN_HOST_ID /\ bus[i].data[1] = code
Writes == {i \in 1..Len(bus) : IsCommand(i, CMD_WRITE_DATA)}
Reads == {i \in 1..Len(bus) : IsCommand(i, CMD_READ_FLASH)}

\* The target answered the command at position i with this response code.
Answered(i, code) ==
    i \in 1..Len(tresp) /\ tresp[i] # NoMsg /\ tresp[i].data[1] = code
\* The target answered the k-th READ_FLASH with the bytes of the image.
ReadBackMatched(k) ==
    /\ Answered(FirstRead + k - 1, RESP_DATA)
    /\ SubSeq(tresp[FirstRead + k - 1].data, 2, 1 + Len(ExpectedSpan(k)))
           = ExpectedSpan(k)

HasEvent(stage) == \E i \in 1..Len(events) : events[i].stage = stage
HasMessage(message) == \E i \in 1..Len(events) : events[i].message = message
LastEvent == events[Len(events)]

\* The first three bytes are 0x14 0x01 0x00.
Canonical(data) ==
    Len(data) >= 3 /\ data[1] = 20 /\ data[2] = 1 /\ data[3] = 0

\* _wait_response takes the frame at the head of the queue.
WaitTakes == pc = "wait" /\ rx # <<>> /\ rx' = Tail(rx)

(* ---------------- C1 ---------------------------------------------------- *)
\* C1: _wait_response never returns a canonical heartbeat nor a frame of
\* another ID; a frame it takes is discarded (and the wait goes on) if it is a
\* canonical heartbeat of 0x18000700 or has another ID, and is returned if
\* it is any other frame of 0x18000700; at the timeout it returns None.
C1_WaitResponse ==
    [][ /\ WaitTakes =>
            LET msg == Head(rx) IN
            IF msg.id = CAN_BOOTLOADER_ID /\ ~Canonical(msg.data)
            THEN pc' = wr_ret /\ resp' = msg
            ELSE pc' = "wait" /\ resp' = NoMsg
        /\ (pc = "wait" /\ pc' # "wait" /\ ~WaitTakes) => resp' = NoMsg
      ]_vars

(* ---------------- C2 ---------------------------------------------------- *)
\* C2: the frames on the bus are a prefix of reset, ERASE_FLASH,
\* SET_ADDRESS(0x08008000), the WRITE_DATA of every chunk, the READ_FLASH of
\* every span (verify on), JUMP_TO_APP (jump on); ERASE_FLASH is sent only
\* after a READY was received, SET_ADDRESS only after the erase was ACKed,
\* the first WRITE_DATA only after the address was ACKed, READ_FLASH and
\* JUMP_TO_APP only after every write was ACKed, JUMP_TO_APP (verify on)
\* only after every read-back matched.
C2_StageOrder ==
    /\ IsPrefix(bus, ExpectedBus)
    /\ Len(bus) >= 2 => ready_emitted /\ HasMessage("Bootloader ready")
    /\ Len(bus) >= 3 => Answered(2, RESP_ACK)
    /\ Len(bus) >= 4 => Answered(3, RESP_ACK)
    /\ Len(bus) >= FirstRead =>
          \A k \in 1..NumChunks : Answered(FirstWrite + k - 1, RESP_ACK)
    /\ (verify /\ Len(bus) >= FirstRead + NumSpans) =>
          \A k \in 1..NumSpans : ReadBackMatched(k)
C2_Witness ==
    /\ pc = "done" /\ result /\ verify /\ jump
    /\ NumChunks = 3
    /\ bus = ExpectedBus

(* ---------------- C3 ---------------------------------------------------- *)
\* C3: after a flash that succeeded with verify on, the flash of the target
\* holds the padded image, the READ_FLASH requests sent cover the image in
\* consecutive spans of 7 bytes (less for the last) and each was answered
\* with DATA carrying the bytes of the image; and verify fails only on a
\* response that is missing, empty, not DATA, or whose bytes differ.
C3_VerifyReadBack ==
    /\ (pc = "done" /\ result /\ verify) =>
          /\ SubSeq(mem, 1, PaddedLen) = PaddedImage
          /\ Cardinality(Reads) = NumSpans
          /\ \A k \in 1..NumSpans :
                bus[FirstRead + k - 1] = ExpectedRead(k) /\ ReadBackMatched(k)
    /\ (pc = "done" /\ LastEvent.message = "Verification failed") =>
          /\ IsResponse(resp, RESP_DATA)
          /\ SubSeq(resp.data, 2, Min(Len(resp.data), 1 + batch_reads[ri].size))
                # SubSeq(PaddedImage, batch_reads[ri].offset + 1,
                         batch_reads[ri].offset + batch_reads[ri].size)
    /\ (pc = "done" /\ LastEvent.message = "Failed to read") =>
          ~IsResponse(resp, RESP_DATA)
C3_Witness ==
    /\ pc = "done" /\ result /\ verify
    /\ NumSpans = 2
    /\ SubSeq(mem, 1, PaddedLen) = PaddedImage

(* ---------------- C4 ---------------------------------------------------- *)
\* The engine read a NACK as the response to JUMP_TO_APP.
JumpNacked ==
    /\ IsResponse(resp, RESP_NACK)
    /\ IsCommand(resp.ref, CMD_JUMP_TO_APP)
\* C4: if the target answers JUMP_TO_APP with a NACK, flash_firmware returns
\* failure and emits no 'complete' progress event.
C4_JumpNackFails ==
    (pc = "done" /\ JumpNacked) => (result = FALSE /\ ~HasEvent("complete"))

(* ---------------- C5 ---------------------------------------------------- *)
\* C5: an image of size 0 is rejected with an error before any frame is
\* transmitted; an image of size 1 is padded with 0xFF to 4 bytes and
\* written as exactly one WRITE_DATA chunk.
C5_EmptyImageRejected ==
    /\ Len(file) = 0 =>
          /\ bus = <<>>
          /\ pc = "done" => (result = FALSE /\ HasEvent("error"))
    /\ (Len(file) = 1 /\ pc # "start") =>
          /\ firmware_data = <<file[1], 255, 255, 255>>
          /\ Cardinality(Writes) <= 1
          /\ \A i \in Writes : bus[i].data = <<7, 4, file[1], 255, 255, 255, 0, 0>>
          /\ (pc = "done" /\ result) => Cardinality(Writes) = 1

(* ---------------- C6 ---------------------------------------------------- *)
\* C6: flash_firmware terminates in every environment, whatever frames
\* keep arriving.
C6_Terminates == <>(pc = "done")

(* ---------------- C7 ---------------------------------------------------- *)
\* WRITE_DATA commands sent and not yet matched by an ACK the engine counted.
Unmatched == Writes \ {ack_refs[i] : i \in 1..Len(ack_refs)}
\* C7: the number of WRITE_DATA commands sent and not yet matched by a
\* counted ACK never exceeds batch_size, and the ACKs counted answer
\* WRITE_DATA commands in the order these were sent.
C7_PipelineBound ==
    /\ Cardinality(Unmatched) <= batch_size
    /\ \A i \in 1..Len(ack_refs) : ack_refs[i] \in Writes
    /\ \A i, j \in 1..Len(ack_refs) : i < j => ack_refs[i] < ack_refs[j]
C7_Witness ==
    /\ batch_size = 2
    /\ Cardinality(Unmatched) = 2
    /\ Answered(FirstWrite, RESP_ACK)
    /\ pc = "wait"

(* ---------------- C8 ---------------------------------------------------- *)
\* The engine holds a response (or the lack of one) that fails the stage.
Detected ==
    \/ pc = "erase_resp" /\ (resp = NoMsg \/ IsResponse(resp, RESP_NACK))
    \/ pc = "acks_resp" /\ IsResponse(resp, RESP_NACK)
    \/ pc = "acks_done" /\ ack_count # chunks_in_batch
    \/ pc = "verify_resp"
         /\ \/ ~IsResponse(resp, RESP_DATA)
            \/ SubSeq(resp.data, 2, Min(Len(resp.data), 1 + batch_reads[ri].size))
                 # SubSeq(PaddedImage, batch_reads[ri].offset + 1,
                          batch_reads[ri].offset + batch_reads[ri].size)
    \/ pc = "jump_resp" /\ IsResponse(resp, RESP_NACK)
\* Every command of the bus is the one of its position, so none is sent twice.
EachCommandOnce ==
    /\ Cardinality({i \in 1..Len(bus) : IsCommand(i, CMD_ERASE_FLASH)}) <= 1
    /\ Cardinality({i \in 1..Len(bus) : IsCommand(i, CMD_SET_ADDRESS)}) <= 1
    /\ Cardinality({i \in 1..Len(bus) : IsCommand(i, CMD_JUMP_TO_APP)}) <= 1
    /\ Cardinality(Writes) <= NumChunks
    /\ Cardinality(Reads) <= NumSpans
    /\ \A i \in Writes : bus[i] = ExpectedWrite(i - FirstWrite + 1)
    /\ \A i \in Reads : bus[i] = ExpectedRead(i - FirstRead + 1)
\* C8: no command is sent twice; a step of the engine that follows the
\* detection of a NACK, a timeout, an ACK mismatch or a verify mismatch
\* leaves an 'error' event and sends nothing; once an 'error' event was
\* emitted no frame is sent; a job that failed has emitted an 'error' event.
C8_NoRetry ==
    /\ []EachCommandOnce
    /\ [][ /\ HasEvent("error") => bus' = bus
           /\ (Detected /\ pc' # pc) => (HasEvent("error")' /\ bus' = bus)
           /\ (pc' = "done" /\ ~result') => HasEvent("error")'
          ]_vars
C8_Witness ==
    /\ pc = "done"
    /\ nack_ref = FirstWrite
    /\ HasMessage("Write failed")
    /\ Cardinality(Writes) < NumChunks

(* ---------------- C9 ---------------------------------------------------- *)
\* C9: when a WRITE_DATA chunk is NACKed the offset reported with the
\* failure is the offset in the image of the chunk the target NACKed.
C9_NackOffset ==
    (pc = "done" /\ nack_ref # 0) =>
        /\ LastEvent.stage = "error"
        /\ LastEvent.arg = WRITE_CHUNK_SIZE * (nack_ref - FirstWrite)

(* ---------------- C10 --------------------------------------------------- *)
\* C10: read_pending_acks gives up on the ACKs of a batch, and the write
\* fails with an ACK mismatch, only when 1 s has passed since the batch was
\* sent without all its ACKs.
C10_AckWindow ==
    (pc = "acks_done" /\ ack_count >= 0 /\ ack_count # chunks_in_batch) =>
        outer >= ACK_WINDOW

(* ---------------- C11 --------------------------------------------------- *)
\* The wait loop of set_address takes the frame at the head of the queue.
AddrTakes == pc = "addr_wait" /\ rx # <<>> /\ rx' = Tail(rx)
\* set_address returned False to write_firmware, which failed the job.
SetAddressReturnsFalse ==
    /\ pc' = "done" /\ result' = FALSE
    /\ LastEvent'.message = "Failed to set initial address"
\* C11: after SET_ADDRESS was sent, set_address skips every canonical
\* heartbeat (any number of them) and every frame of another ID without
\* surfacing anything, returns success on an ACK read within 15 s, returns
\* failure when the first other frame of 0x18000700 is not an ACK, and
\* returns failure when 15 s pass without such a frame.
C11_SetAddress ==
    [][ /\ AddrTakes =>
            LET msg == Head(rx) IN
            IF msg.id # CAN_BOOTLOADER_ID \/ Canonical(msg.data)
            THEN pc' = "addr_wait" /\ events' = events
            ELSE IF Len(msg.data) > 0 /\ msg.data[1] = RESP_ACK
                 THEN pc' = "write_loop" /\ events' = events
                 ELSE SetAddressReturnsFalse
        /\ (pc = "addr_wait" /\ pc' # pc /\ ~AddrTakes) =>
              (elapsed >= SET_ADDRESS_WAIT /\ SetAddressReturnsFalse)
      ]_vars

(* ---------------- C14 --------------------------------------------------- *)
\* The progress events the step appends.
NewEvents == SubSeq(events', Len(events) + 1, Len(events'))
\* C14: the response jump_to_application decides on is the first frame of
\* 0x18000700 that is not a canonical heartbeat, read within 500 ms, or none
\* once 500 ms have passed; it returns success on an ACK and on no response
\* (flash_firmware reports nothing more), and failure on a NACK
\* (flash_firmware reports that the jump may have failed).
C14_JumpOutcome ==
    /\ [](pc = "jump_resp" =>
            IF resp = NoMsg
            THEN elapsed >= JUMP_WAIT
            ELSE /\ elapsed < JUMP_WAIT
                 /\ resp.id = CAN_BOOTLOADER_ID
                 /\ ~Canonical(resp.data))
    /\ [][ (pc = "jump_resp" /\ pc' # pc) =>
             /\ (resp # NoMsg /\ resp.data[1] = RESP_ACK) =>
                   NewEvents = <<Progress("jump", 100, "Application started", 0)>>
             /\ resp = NoMsg =>
                   NewEvents = <<Progress("jump", 100, "Jump command sent", 0)>>
             /\ (resp # NoMsg /\ resp.data[1] = RESP_NACK) =>
                   /\ Len(NewEvents) = 2
                   /\ NewEvents[1].stage = "error"
                   /\ NewEvents[1].message = "Jump failed"
                   /\ NewEvents[2] = JumpMayHaveFailed
          ]_vars
C14_Witness ==
    /\ pc = "done" /\ result /\ jump
    /\ IsCommand(Len(bus), CMD_JUMP_TO_APP)
    /\ resp = NoMsg
    /\ elapsed >= JUMP_WAIT
    /\ HasMessage("Jump command sent")

(* ---------------- C15 --------------------------------------------------- *)
\* Bitwise OR of two naturals.
RECURSIVE BitOr(_, _)
BitOr(a, b) ==
    IF a = 0 THEN b
    ELSE IF b = 0 THEN a
    ELSE (IF a % 2 = 1 \/ b % 2 = 1 THEN 1 ELSE 0) + 2 * BitOr(a \div 2, b \div 2)
\* Frames on the bus that are not bootloader commands.
ResetFrames == {i \in 1..Len(bus) : bus[i].id # CAN_HOST_ID}
\* The wait loop of send_reset_message takes the frame at the head of the queue.
ResetTakes == pc = "reset_wait" /\ rx # <<>> /\ rx' = Tail(rx)
\* C15: the reset frame of module m in 0..5 has ID 0x08F00F02 | (m << 16)
\* (0x08F30F02 for m = 3) and 8 data bytes; send_reset_message transmits it
\* once and nothing else; it then succeeds exactly when it reads, within
\* 3 s, a frame of 0x18000700 whose first byte is 0x14, and reports a
\* 'reset' 100 % event with that frame's second byte as the version; when
\* 3 s pass it fails with an 'error' event; for m outside 0..5 it fails
\* with an 'error' event and no frame is ever transmitted.
C15_ResetMessage ==
    /\ \A m \in 0..5 :
          /\ ResetFrame(m).id = BitOr(149950210, m * 65536)
          /\ Len(ResetFrame(m).data) = 8
    /\ ResetFrame(3).id = 150146818
    /\ [] /\ module_number \notin 0..5 =>
               /\ bus = <<>>
               /\ pc \in {"start", "reset", "done"}
               /\ pc = "done" => (result = FALSE /\ LastEvent.stage = "error")
          /\ module_number \in 0..5 =>
               /\ ResetFrames \subseteq {1}
               /\ bus # <<>> =>
                    /\ bus[1].id = BitOr(149950210, module_number * 65536)
                    /\ Len(bus[1].data) = 8
               /\ pc \in {"reset_wait", "sleep"} => Len(bus) = 1
    /\ [][ /\ ResetTakes =>
                LET msg == Head(rx) IN
                IF msg.id = CAN_BOOTLOADER_ID /\ Len(msg.data) > 0 /\ msg.data[1] = 20
                THEN /\ pc' = "sleep"
                     /\ NewEvents = <<Progress("reset", 100, "Bootloader ready",
                                        IF Len(msg.data) > 1 THEN msg.data[2] ELSE 0)>>
                ELSE pc' = "reset_wait" /\ events' = events
           /\ (pc = "reset_wait" /\ pc' # pc /\ ~ResetTakes) =>
                /\ elapsed >= RESET_WAIT
                /\ pc' = "done" /\ result' = FALSE
                /\ Len(NewEvents) = 1 /\ NewEvents[1].stage = "error"
          ]_vars
C15_Witness ==
    /\ module_number = 3
    /\ pc = "sleep"
    /\ bus = <<[id |-> 150146818, data |-> <<0, 0, 0, 0, 0, 0, 0, 0>>, ref |-> 0]>>
    /\ LastEvent = Progress("reset", 100, "Bootloader ready", 7)

(* ---------------- C12 --------------------------------------------------- *)
\* The last frame sent is the bootloader command with this code.
SentIs(code) == sent # NoMsg /\ sent.id = CAN_HOST_ID /\ sent.data[1] = code
\* 0x08008000 <= a <= 0x0803BFFF
InFlash(a) == a >= 134250496 /\ a <= 134463487
\* C12: whatever the size of the image, the address of every SET_ADDRESS
\* and READ_FLASH command sent, and the address 0x08008000 + 4k at which the
\* target stores the k-th WRITE_DATA chunk, lie in 0x08008000..0x0803BFFF.
C12_AddressesInRange ==
    /\ (SentIs(6) \/ SentIs(3)) => InFlash(CommandAddress(sent.data))
    /\ (phase = "write" /\ SentIs(7)) =>
          /\ write_addr = 134250496 + 4 * ((position \div 4) - 1)
          /\ InFlash(write_addr)
C12_Witness ==
    /\ original_size > 212992
    /\ phase = "write" /\ SentIs(7)
    /\ write_addr = 134463484

(* ---------------- C13 --------------------------------------------------- *)
Truncation == Progress("write", 0, "Truncating", 212992)
\* C13: for an image of more than 0x34000 bytes, the progress event that
\* announces the truncation is emitted before any frame is sent; the chunks
\* written are, in order and each once, the bytes 4k..4k+3 of the file for
\* k = 0..0x34000/4 - 1, stored from 0x08008000 on, and nothing is written
\* after the chunk that ends at byte 0x34000.
C13_Truncation ==
    /\ [](original_size > 212992 =>
            /\ (phase = "load") => nsent = 0
            /\ (phase # "load") =>
                  /\ \E i \in 1..Len(announced) : announced[i] = Truncation
                  /\ image = [len |-> 212992, file_len |-> 212992]
            /\ (phase = "write" /\ ~SentIs(7)) => position = 0
            /\ (phase = "write" /\ SentIs(7)) =>
                  /\ position <= 212992
                  /\ write_addr = 134250496 + position - 4
                  /\ sent.data = <<7, 4, FileByte(position - 4), FileByte(position - 3),
                                   FileByte(position - 2), FileByte(position - 1), 0, 0>>
            /\ (phase \in {"verify", "jump", "end"}) =>
                  write_addr = 134250496 + 212988)
    /\ [][ (original_size > 212992 /\ phase = "write" /\ phase' = "write") =>
              (position' = position + 4 /\ nsent' = nsent + 1 /\ SentIs(7)')
          ]_vars
C13_Witness ==
    /\ original_size = 212993
    /\ phase = "end"
    /\ announced = <<Progress("write", 0, "Loading", 0), Truncation>>
    /\ write_addr = 134250496 + 212988
    /\ nsent = 3 + 53248 + 30428 + 1

(* ======================================================================== *)
(* The web server (webserver/backend/api.py): one event loop runs the       *)
(* endpoints, each of them an async function that never awaits while it     *)
(* works on the backend, so a request is handled from its first line to its *)
(* response before the next one starts; flash_firmware calls the engine     *)
(* from inside its endpoint.                                                *)
(* ======================================================================== *)
\* The frame of a /send request.
UserFrame == [id |-> USER_FRAME_ID, data |-> <<1, 2>>, ref |-> 0]

\* The requests a client may issue; during_flash records, for the claims,
\* whether the endpoint of a flash was running when the request arrived.
Request(kind, dt, f, m, bin) ==
    [kind |-> kind, device_type |-> dt, file |-> f, module_number |-> m,
     bin |-> bin, during_flash |-> pc # "idle"]
Requests ==
    { Request("connect", dt, <<>>, 0, TRUE) : dt \in DeviceTypes }
    \cup { Request("disconnect", "none", <<>>, 0, TRUE),
           Request("send", "none", <<>>, 0, TRUE) }
    \cup { Request("flash", "none", f, m, TRUE) : f \in Uploads, m \in ModuleNumbers }
    \cup { Request("flash", "none", f, 3, FALSE) : f \in Uploads }

\* A request reaches the server; the event loop takes it when it is free.
Arrive ==
    /\ arrived < MaxRequests
    /\ \E r \in Requests :
         /\ r.kind = "flash" => uploads < MaxUploads
         /\ pending' = Append(pending, r)
         /\ uploads' = IF r.kind = "flash" THEN uploads + 1 ELSE uploads
    /\ arrived' = arrived + 1
    /\ UNCHANGED <<job, pc, firmware_data, result, events, rx, bus, wait_vars,
                   write_vars, verify_vars, target_vars, image_vars, gui_vars, more, driver,
                   device_type, is_connected, start_time, message_count, last_reply,
                   created, open>>

\* The event loop is free and takes the oldest request, of the given kind.
Takes(kind) == pc = "idle" /\ pending # <<>> /\ Head(pending).kind = kind

\* The endpoint returns (200) or raises HTTPException(status).
Respond(status) ==
    /\ last_reply' = [kind |-> Head(pending).kind, status |-> status,
                 during_flash |-> Head(pending).during_flash]
    /\ pending' = Tail(pending)

\* datetime.now(): the requests handled so far, this one included.
Now == arrived - Len(pending) + 1

\* The engine and the target are left alone.
EngineUntouched ==
    UNCHANGED <<job, pc, firmware_data, result, events, rx, wait_vars,
                write_vars, verify_vars, target_vars, image_vars, gui_vars, more, arrived,
                uploads>>

\* connect (endpoint, line 678) and CANBackend.connect (line 301): refused
\* while connected.
ConnectWhileConnected == FALSE
ConnectRefused == is_connected

\* POST /connect, lines 675-692, with CANBackend.connect, lines 299-379.
HandleConnect ==
    /\ Takes("connect")
    /\ IF ConnectRefused
       THEN /\ Respond(400)
            /\ UNCHANGED <<driver, device_type, is_connected, start_time,
                           message_count, created, open>>
       ELSE \/ \* the driver is not available, or the channel is malformed
               /\ Respond(500)
               /\ UNCHANGED <<driver, device_type, is_connected, start_time,
                              message_count, created, open>>
            \/ \* the driver is created; its connect returns False or raises
               /\ driver' = created + 1
               /\ created' = created + 1
               /\ Respond(500)
               /\ UNCHANGED <<device_type, is_connected, start_time,
                              message_count, open>>
            \/ \* the driver is connected and its receive thread started
               /\ driver' = created + 1
               /\ created' = created + 1
               /\ open' = open \cup {created + 1}
               /\ device_type' = Head(pending).device_type
               /\ is_connected' = TRUE
               /\ start_time' = Now
               /\ message_count' = 0
               /\ Respond(200)
    /\ bus' = bus
    /\ EngineUntouched

\* POST /disconnect, lines 695-706, with CANBackend.disconnect, lines 381-395.
HandleDisconnect ==
    /\ Takes("disconnect")
    /\ IF ~is_connected
       THEN /\ Respond(400)
            /\ UNCHANGED <<driver, device_type, is_connected, open>>
       ELSE \/ /\ open' = open \ {driver}
               /\ driver' = 0
               /\ is_connected' = FALSE
               /\ device_type' = "none"
               /\ Respond(200)
            \/ \* stop_receive_thread or driver.disconnect raises
               /\ Respond(500)
               /\ UNCHANGED <<driver, device_type, is_connected, open>>
    /\ bus' = bus
    /\ UNCHANGED <<start_time, message_count, created>>
    /\ EngineUntouched

\* POST /send, lines 716-732, with CANBackend.send_message, lines 397-408.
HandleSend ==
    /\ Takes("send")
    /\ IF ~is_connected
       THEN Respond(400) /\ bus' = bus
       ELSE \E ok \in BOOLEAN :
              /\ Send(UserFrame, ok)
              /\ Respond(IF ok THEN 200 ELSE 500)
    /\ UNCHANGED <<driver, device_type, is_connected, start_time,
                   message_count, created, open>>
    /\ EngineUntouched

\* The checks of POST /flash_firmware, lines 1002-1014.
FlashStatusUnconnected(r) ==
    IF ~(0 <= r.module_number /\ r.module_number <= 5) THEN 400
    ELSE IF ~r.bin THEN 400
    ELSE 200
FlashStatus(r) ==
    IF ~is_connected THEN 400
    ELSE IF driver = 0 THEN 500
    ELSE IF ~(0 <= r.module_number /\ r.module_number <= 5) THEN 400
    ELSE IF ~r.bin THEN 400
    ELSE 200

\* POST /flash_firmware refuses the request.
FlashRefuse ==
    /\ Takes("flash")
    /\ FlashStatus(Head(pending)) # 200
    /\ Respond(FlashStatus(Head(pending)))
    /\ bus' = bus
    /\ UNCHANGED <<driver, device_type, is_connected, start_time,
                   message_count, created, open>>
    /\ EngineUntouched

\* POST /flash_firmware, lines 1016-1045: the upload is saved, a
\* FirmwareFlasher is made for backend.driver and flash_firmware is called
\* with verify, jump and the default batch_size.
FlashBegin ==
    /\ Takes("flash")
    /\ FlashStatus(Head(pending)) = 200
    /\ file' = Head(pending).file
    /\ module_number' = Head(pending).module_number
    /\ verify' = TRUE /\ jump' = TRUE /\ batch_size' = 16
    /\ pc' = "start"
    /\ firmware_data' = <<>> /\ result' = FALSE /\ events' = <<>>
    /\ elapsed' = 0 /\ wr_timeout' = 0 /\ wr_ret' = "none" /\ resp' = NoMsg
    /\ outer' = 0 /\ ack_count' = 0 /\ ack_refs' = <<>> /\ nack_ref' = 0
    /\ bytes_written' = 0 /\ chunks_in_batch' = 0
    /\ bytes_verified' = 0 /\ address' = 0 /\ current_address' = 0
    /\ batch_reads' = <<>> /\ ri' = 0
    /\ UNCHANGED <<rx, bus, target_vars, image_vars, gui_vars, more, backend_vars>>

\* POST /flash_firmware, lines 1047-1075: flash_firmware has returned.
FlashReturn ==
    /\ pc = "done"
    /\ pending # <<>> /\ Head(pending).kind = "flash"
    /\ Respond(IF result THEN 200 ELSE 500)
    /\ pc' = "idle"
    /\ UNCHANGED <<job, firmware_data, result, events, rx, bus, wait_vars,
                   write_vars, verify_vars, target_vars, image_vars, gui_vars, more, driver,
                   device_type, is_connected, start_time, message_count,
                   arrived, uploads, created, open>>

\* CANBackend._on_message_received, lines 560-596, called by the receive
\* thread of the driver for every frame, whatever its ID: the frame is
\* counted and handed to broadcast_message.
OnMessageReceived ==
    /\ is_connected
    /\ message_count < MaxMessages
    /\ message_count' = message_count + 1
    /\ UNCHANGED <<job, pc, firmware_data, result, events, rx, bus, wait_vars,
                   write_vars, verify_vars, target_vars, image_vars, gui_vars, more, driver,
                   device_type, is_connected, start_time, pending, arrived,
                   uploads, last_reply, created, open>>

BackendNext ==
    \/ Arrive \/ HandleConnect \/ HandleDisconnect \/ HandleSend
    \/ FlashRefuse \/ FlashBegin \/ FlashReturn \/ OnMessageReceived
    \/ Engine \/ TimePasses \/ TargetStep \/ Heartbeat \/ BusNoise

\* The server has started (startup, lines 1109-1143): nothing is connected.
BackendStart ==
    /\ file = <<>> /\ module_number = 0
    /\ verify = TRUE /\ jump = TRUE /\ batch_size = 16
    /\ pc = "idle"
    /\ firmware_data = <<>> /\ result = FALSE /\ events = <<>>
    /\ rx = <<>> /\ bus = <<>>
    /\ elapsed = 0 /\ wr_timeout = 0 /\ wr_ret = "none" /\ resp = NoMsg
    /\ outer = 0 /\ ack_count = 0 /\ ack_refs = <<>> /\ nack_ref = 0
    /\ bytes_written = 0 /\ chunks_in_batch = 0
    /\ bytes_verified = 0 /\ address = 0 /\ current_address = 0
    /\ batch_reads = <<>> /\ ri = 0
    /\ tmode \in {"app", "boot"}
    /\ tresp = <<>> /\ mem = [i \in 1..MemSize |-> 0] /\ taddr = -1
    /\ ready_emitted = FALSE
    /\ NoImage
    /\ NoBackend
    /\ NoGui
    /\ NoMore
BackendSpec == BackendStart /\ [][BackendNext]_vars

(* ---------------- claims on the web server ------------------------------ *)
\* The event loop answers the oldest request in this step.
Answers(kind) == Takes(kind) /\ pending' = Tail(pending)

\* C17: a /send request that reached the server while flash_firmware was
\* running is answered with an error, and its frame is not put on the bus,
\* neither during the flash nor once the flash has returned.
C17_SendRejectedDuringFlash ==
    [][ (Answers("send") /\ Head(pending).during_flash) =>
           (last_reply'.status # 200 /\ bus' = bus) ]_vars

\* A disconnect request reached the server while this flash was running.
DisconnectRequested ==
    \E i \in 1..Len(pending) :
        pending[i].kind = "disconnect" /\ pending[i].during_flash

\* C19: when a disconnect was requested while flash_firmware was running,
\* flash_firmware does not return True; and no frame is handed to a driver
\* that has been closed.
C19_DisconnectCancelsFlash ==
    /\ []((pc = "done" /\ DisconnectRequested) => ~result)
    /\ [][ bus' # bus => (is_connected /\ open = {driver}) ]_vars

\* C20: a connect request handled while the backend is connected is
\* answered with status 400 and leaves driver, device_type, is_connected,
\* start_time and message_count as they were; at any time at most one
\* driver object has its device open, and it is the one bound to the
\* backend, which is connected exactly then.
C20_ConnectWhileConnected ==
    /\ [] /\ Cardinality(open) <= 1
          /\ open \subseteq {driver}
          /\ is_connected <=> open # {}
          /\ is_connected => (start_time > 0 /\ device_type \in DeviceTypes)
    /\ [][ (Answers("connect") /\ is_connected) =>
              /\ last_reply'.status = 400
              /\ UNCHANGED <<driver, device_type, is_connected, start_time,
                             message_count, open>> ]_vars
C20_Witness ==
    /\ last_reply = [kind |-> "connect", status |-> 400, during_flash |-> FALSE]
    /\ is_connected /\ driver = 1 /\ open = {1}
    /\ start_time = 1 /\ message_count = 1
    /\ arrived = 2 /\ pending = <<>>

(* ======================================================================== *)
(* The desktop GUI (PythonCAN-GUI-Tabbed.py): the receive thread of the     *)
(* driver calls _on_message_received for every frame; the Flash and Erase   *)
(* buttons each start a thread that talks to the bootloader through         *)
(* _send_command and _wait_for_response.  A firmware file has been chosen.  *)
(* ======================================================================== *)
\* The file behind flash_firmware_path, padded (lines 915-922).
GuiFirmware == pad_to_4byte_boundary(<<171>>)

\* What the GUI never touches.
gui_rest ==
    <<job, pc, firmware_data, result, events, wait_vars, write_vars,
      verify_vars, target_vars, image_vars, driver, device_type, start_time,
      message_count, pending, arrived, uploads, last_reply, created, open,
      more>>

\* _toggle_connection, lines 395-430: connect (driver.connect may fail), or
\* disconnect.
ToggleConnection ==
    /\ IF ~is_connected
       THEN \E ok \in BOOLEAN : is_connected' = ok
       ELSE is_connected' = FALSE
    /\ UNCHANGED <<gui_rest, gui_vars, rx, bus>>

\* _on_message_received, lines 517-564, for the frame the receive thread
\* took from the driver.
GuiMessageReceived ==
    /\ is_connected
    /\ rx # <<>>
    /\ total_messages < MaxReceived
    /\ LET msg == Head(rx) IN
       /\ rx' = Tail(rx)
       /\ IF flash_in_progress /\ msg.id = CAN_BOOTLOADER_ID
          THEN /\ flash_response_data' = msg.data
               /\ flash_response_event' = TRUE
          ELSE UNCHANGED <<flash_response_data, flash_response_event>>
       /\ total_messages' = total_messages + 1
       /\ message_data' = [message_data EXCEPT ![msg.id] = @ + 1]
    /\ UNCHANGED <<gui_rest, is_connected, bus, flash_in_progress, threads>>

\* _flash_firmware (lines 898-908) and _flash_erase (lines 862-868): when
\* connected, a thread is started.
StartThread ==
    /\ is_connected
    /\ \E kind \in {"flash", "erase"}, t \in 1..MaxJobs :
         /\ threads[t] = NoThread
         /\ \A u \in 1..(t - 1) : threads[u] # NoThread
         /\ threads' = [threads EXCEPT ![t] =
                          [kind |-> kind, stage |-> "erase", pc |-> "begin",
                           offset |-> 0]]
    /\ UNCHANGED <<gui_rest, is_connected, rx, bus, flash_in_progress,
                   flash_response_data, flash_response_event, total_messages,
                   message_data>>

\* Thread t goes to pc p, in stage st at the given offset.
Goto(t, st, p, off) ==
    threads' = [threads EXCEPT ![t] = [@ EXCEPT !.stage = st, !.pc = p,
                                                 !.offset = off]]
\* An exception, or the end of the try block: the finally clause is next.
Finally(t) == Goto(t, threads[t].stage, "finally", threads[t].offset)

\* The first lines of _flash_firmware_thread (910-926) and of
\* _flash_erase_thread (870-876).
ThreadBegin ==
    \E t \in 1..MaxJobs :
      /\ threads[t].pc = "begin"
      /\ flash_in_progress' = TRUE
      /\ Goto(t, "erase", "send", 0)
      /\ UNCHANGED <<gui_rest, is_connected, rx, bus, flash_response_data,
                     flash_response_event, total_messages, message_data>>

\* The command of a stage: ERASE_FLASH, SET_ADDRESS, WRITE_DATA.
StageFrame(st, off) ==
    CASE st = "erase" -> CommandFrame(CMD_ERASE_FLASH, <<>>)
      [] st = "addr" -> CommandFrame(CMD_SET_ADDRESS, addr_bytes(APP_START_ADDRESS))
      [] OTHER -> CommandFrame(CMD_WRITE_DATA,
                               <<4>> \o Slice(GuiFirmware, off, off + WRITE_CHUNK_SIZE))

\* _send_command / _send_command_list (850-860) for the stage; a failed send
\* raises.
ThreadSend ==
    \E t \in 1..MaxJobs :
      /\ threads[t].pc = "send"
      /\ \E ok \in {o \in BOOLEAN : o => is_connected} :
           /\ Send(StageFrame(threads[t].stage, threads[t].offset), ok)
           /\ IF ok THEN Goto(t, threads[t].stage, "clear", threads[t].offset)
                    ELSE Finally(t)
      /\ UNCHANGED <<gui_rest, is_connected, rx, flash_in_progress,
                     flash_response_data, flash_response_event, total_messages,
                     message_data>>

\* _wait_for_response, line 845: flash_response_event.clear().
ThreadClear ==
    \E t \in 1..MaxJobs :
      /\ threads[t].pc = "clear"
      /\ flash_response_event' = FALSE
      /\ Goto(t, threads[t].stage, "wait", threads[t].offset)
      /\ UNCHANGED <<gui_rest, is_connected, rx, bus, flash_in_progress,
                     flash_response_data, total_messages, message_data>>

\* The stage goes on after the response (None is <<>>): it starts with ACK.
Acked(response) == response # <<>> /\ response[1] = RESP_ACK

\* _wait_for_response, lines 846-848, and the test of its result: the event
\* is set and flash_response_data is returned, or the timeout passes.
ThreadWait ==
    \E t \in 1..MaxJobs :
      /\ threads[t].pc = "wait"
      /\ LET th == threads[t]
             response == IF flash_response_event THEN flash_response_data ELSE <<>>
         IN
         IF ~Acked(response) THEN Finally(t)
         ELSE IF th.kind = "erase" THEN Finally(t)
         ELSE IF th.stage = "erase" THEN Goto(t, "addr", "send", 0)
         ELSE IF th.stage = "addr"
         THEN IF Len(GuiFirmware) > 0 THEN Goto(t, "write", "send", 0)
                                      ELSE Finally(t)
         ELSE IF th.offset + WRITE_CHUNK_SIZE < Len(GuiFirmware)
         THEN Goto(t, "write", "send", th.offset + WRITE_CHUNK_SIZE)
         ELSE Finally(t)
      /\ UNCHANGED <<gui_rest, is_connected, rx, bus, flash_in_progress,
                     flash_response_data, flash_response_event, total_messages,
                     message_data>>

\* The finally clause of both threads (lines 895-896, 1014-1015).
ThreadFinally ==
    \E t \in 1..MaxJobs :
      /\ threads[t].pc = "finally"
      /\ flash_in_progress' = FALSE
      /\ threads' = [threads EXCEPT ![t] = Ended]
      /\ UNCHANGED <<gui_rest, is_connected, rx, bus, flash_response_data,
                     flash_response_event, total_messages, message_data>>

GuiNext ==
    \/ ToggleConnection \/ GuiMessageReceived \/ StartThread
    \/ ThreadBegin \/ ThreadSend \/ ThreadClear \/ ThreadWait \/ ThreadFinally
    \/ TargetStep \/ Heartbeat \/ BusNoise

\* The GUI has started; the engine of the flasher is not used.
GuiStart ==
    /\ file = <<>> /\ module_number = 0
    /\ verify = TRUE /\ jump = TRUE /\ batch_size = 16
    /\ pc = "gui"
    /\ firmware_data = <<>> /\ result = FALSE /\ events = <<>>
    /\ rx = <<>> /\ bus = <<>>
    /\ elapsed = 0 /\ wr_timeout = 0 /\ wr_ret = "none" /\ resp = NoMsg
    /\ outer = 0 /\ ack_count = 0 /\ ack_refs = <<>> /\ nack_ref = 0
    /\ bytes_written = 0 /\ chunks_in_batch = 0
    /\ bytes_verified = 0 /\ address = 0 /\ current_address = 0
    /\ batch_reads = <<>> /\ ri = 0
    /\ tmode \in {"app", "boot"}
    /\ tresp = <<>> /\ mem = [i \in 1..MemSize |-> 0] /\ taddr = -1
    /\ ready_emitted = FALSE
    /\ NoImage
    /\ NoBackend
    /\ NoGui
    /\ NoMore
GuiSpec == GuiStart /\ [][GuiNext]_vars

(* ---------------- claims on the GUI ------------------------------------- *)
\* C16: while flash_in_progress is set, a frame of ID 0x18000700 that the
\* receive thread hands to _on_message_received reaches neither the
\* statistics (total_messages) nor the message table (message_data).
C16_BootloaderFramesHidden ==
    [][ ( /\ pc = "gui" /\ flash_in_progress
          /\ rx # <<>> /\ Head(rx).id = CAN_BOOTLOADER_ID
          /\ rx' = Tail(rx) ) =>
           UNCHANGED <<total_messages, message_data>> ]_vars

\* The threads that send commands to the bootloader and wait for its
\* responses.
Active == {t \in 1..MaxJobs : threads[t].pc \in {"send", "clear", "wait"}}

\* C18: at most one flash or erase job talks to the bootloader at a time,
\* and a Flash or Erase click made while flash_in_progress is set starts no
\* thread.
C18_OneFlashJob ==
    /\ [](Cardinality(Active) <= 1)
    /\ [][ flash_in_progress =>
             \A t \in 1..MaxJobs : threads[t] = NoThread => threads'[t] = NoThread
         ]_vars

(* ---------------- claims on requests without a connection -------------- *)
\* C21: a send, disconnect or flash_firmware request handled while no device
\* is connected is answered with an error (status 400), no frame is handed
\* to a driver, no driver is closed or created, flash_firmware is not
\* called, and driver, device_type, is_connected and message_count stay as
\* they were.
C21_RejectedWhenNotConnected ==
    [][ ( /\ ~is_connected
          /\ \/ Answers("send") \/ Answers("disconnect")
             \/ (Takes("flash") /\ (pending' = Tail(pending) \/ pc' # pc)) ) =>
           /\ last_reply'.status = 400
           /\ pc' = "idle"
           /\ UNCHANGED <<driver, device_type, is_connected, message_count,
                          bus, rx, open, created>> ]_vars
C21_Witness ==
    /\ last_reply = [kind |-> "flash", status |-> 400, during_flash |-> FALSE]
    /\ ~is_connected /\ driver = 1 /\ open = {}
    /\ arrived = 3 /\ pending = <<>>
    /\ bus = <<>> /\ pc = "idle"

(* ======================================================================== *)
(* NetworkCANDriver (drivers/NetworkCAN_Driver.py): connect, disconnect,    *)
(* start_receive_thread and stop_receive_thread are called by one thread;   *)
(* each receive loop is a thread of its own that polls the server.          *)
(* ======================================================================== *)
\* What the drivers modelled on their own never touch.
old_vars ==
    <<job, pc, firmware_data, result, events, rx, bus, wait_vars, write_vars,
      verify_vars, target_vars, image_vars, backend_vars, gui_vars>>
net_rest == <<old_vars, parse_vars, bt_vars, agg_vars, dec_vars,
      ws_vars,
      conn_vars>>

\* The flasher, the web server and the GUI are not used.
Unused ==
    /\ file = <<>> /\ module_number = 0
    /\ verify = TRUE /\ jump = TRUE /\ batch_size = 16
    /\ pc = "unused"
    /\ firmware_data = <<>> /\ result = FALSE /\ events = <<>>
    /\ rx = <<>> /\ bus = <<>>
    /\ elapsed = 0 /\ wr_timeout = 0 /\ wr_ret = "none" /\ resp = NoMsg
    /\ outer = 0 /\ ack_count = 0 /\ ack_refs = <<>> /\ nack_ref = 0
    /\ bytes_written = 0 /\ chunks_in_batch = 0
    /\ bytes_verified = 0 /\ address = 0 /\ current_address = 0
    /\ batch_reads = <<>> /\ ri = 0
    /\ tmode = "app"
    /\ tresp = <<>> /\ mem = [i \in 1..MemSize |-> 0] /\ taddr = -1
    /\ ready_emitted = FALSE
    /\ NoImage
    /\ NoBackend
    /\ NoGui

\* max_errors of _receive_loop, line 373.
max_errors == 10

\* The frames the server may return: a timestamp and what else tells two
\* frames apart.
ServerFrames == [timestamp : 1..MaxTs, tag : {"a", "b"}]
\* The 'messages' of a poll response, in the order of the response.
Batches == UNION { [1..n -> ServerFrames] : n \in 0..MaxBatchLen }

\* sorted(messages, key=timestamp), line 399: stable, by insertion.
RECURSIVE Insert(_, _)
Insert(m, sorted) ==
    IF sorted = <<>> THEN <<m>>
    ELSE IF m.timestamp < Head(sorted).timestamp THEN <<m>> \o sorted
    ELSE <<Head(sorted)>> \o Insert(m, Tail(sorted))
RECURSIVE SortByTimestamp(_)
SortByTimestamp(messages) ==
    IF messages = <<>> THEN <<>>
    ELSE Insert(messages[Len(messages)],
                SortByTimestamp(SubSeq(messages, 1, Len(messages) - 1)))

\* threading.Thread.is_alive() of receive loop l.
Alive(l) == loops[l].pc \notin {"none", "ended"}
\* Loop l goes to pc p.
LoopTo(l, p) == loops' = [loops EXCEPT ![l].pc = p]
\* A call on the driver by its user.
Call == joining = "none" /\ calls < MaxCalls /\ calls' = calls + 1

\* connect, lines 136-211: refused when connected; else the server answers
\* or not.
NetConnect ==
    /\ Call
    /\ IF net_connected
       THEN UNCHANGED <<net_connected, reconnect_failed>>
       ELSE \E answers \in BOOLEAN :
              \* a request to "None/" raises; it is caught and False returned
              /\ net_connected' = (answers /\ net_base_url # "None")
              /\ reconnect_failed' = (reconnect_failed \/ (answers /\ net_base_url = "None"))
    /\ UNCHANGED <<net_rest, net_base_url, deletes, net_stop_receive, net_receive_thread,
                   net_receive_callback, net_last_timestamp, loops, joining,
                   returned, delivered, polls>>

\* start_receive_thread, lines 492-526.
StartReceiveThread ==
    /\ Call
    /\ IF ~net_connected
          \/ (net_receive_thread # 0 /\ Alive(net_receive_thread))
       THEN UNCHANGED <<net_receive_callback, net_stop_receive,
                        net_last_timestamp, net_receive_thread, loops, deletes>>
       ELSE \E l \in 1..MaxLoops :
              /\ loops[l] = NoLoop
              /\ \A k \in 1..(l - 1) : loops[k] # NoLoop
              /\ net_receive_callback' = calls + 1
              /\ net_stop_receive' = FALSE
              /\ net_last_timestamp' = 0
              \* DELETE /api/messages, whatever its outcome
              /\ deletes' = deletes + 1
              /\ loops' = [loops EXCEPT ![l].pc = "top"]
              /\ net_receive_thread' = l
    /\ UNCHANGED <<net_rest, net_base_url, reconnect_failed, net_connected, joining, returned, delivered, polls>>

\* stop_receive_thread, lines 528-536, up to its join.
StopBegins(call) ==
    /\ net_stop_receive' = TRUE
    /\ IF net_receive_thread # 0 /\ Alive(net_receive_thread)
       THEN /\ joining' = call
            /\ UNCHANGED <<net_receive_thread, net_receive_callback, net_connected,
                           net_base_url>>
       ELSE /\ joining' = "none"
            /\ net_receive_thread' = 0
            /\ net_receive_callback' = 0
            /\ net_connected' = IF call = "disconnect" THEN FALSE ELSE net_connected
            /\ net_base_url' = IF call = "disconnect" THEN "None" ELSE net_base_url

StopReceiveThread ==
    /\ Call
    /\ StopBegins("stop_receive_thread")
    /\ UNCHANGED <<net_rest, deletes, reconnect_failed, net_last_timestamp, loops, returned, delivered, polls>>

\* disconnect, lines 213-237.
NetDisconnect ==
    /\ Call
    /\ IF ~net_connected
       THEN UNCHANGED <<net_stop_receive, joining, net_receive_thread,
                        net_receive_callback, net_connected, net_base_url>>
       ELSE StopBegins("disconnect")
    /\ UNCHANGED <<net_rest, deletes, reconnect_failed, net_last_timestamp, loops, returned, delivered, polls>>

\* join(timeout=2.0) returns: the loop has ended, or 2 s have passed while
\* its poll (timeout 5 s) is in flight; the caller goes on (lines 534-535,
\* 226-236).
JoinReturns ==
    /\ joining # "none"
    /\ ~Alive(net_receive_thread) \/ loops[net_receive_thread].pc = "poll"
    /\ net_receive_thread' = 0
    /\ net_receive_callback' = 0
    /\ net_connected' = IF joining = "disconnect" THEN FALSE ELSE net_connected
    /\ net_base_url' = IF joining = "disconnect" THEN "None" ELSE net_base_url
    /\ joining' = "none"
    /\ UNCHANGED <<net_rest, deletes, reconnect_failed, net_stop_receive, net_last_timestamp, loops,
                   returned, delivered, polls, calls>>

\* _receive_loop, line 377: the test of the while loop; the poll is sent.
LoopTop ==
    /\ \E l \in 1..MaxLoops :
         /\ loops[l].pc = "top"
         /\ LoopTo(l, IF ~net_stop_receive /\ net_connected THEN "poll" ELSE "ended")
    /\ UNCHANGED <<net_rest, net_base_url, deletes, reconnect_failed, net_connected, net_stop_receive, net_receive_thread,
                   net_receive_callback, net_last_timestamp, joining, returned,
                   delivered, polls, calls>>

\* _receive_loop, lines 379-399 and 464-478: the poll returns messages (status
\* 200, success), or status 200 without success, or fails (another status, a
\* timeout, a connection error, another exception).
PollReturns ==
    /\ \E l \in 1..MaxLoops :
         /\ loops[l].pc = "poll"
         /\ \/ /\ polls < MaxPolls
               /\ \E b \in Batches :
                    /\ loops' = [loops EXCEPT ![l].pc = "batch",
                                              ![l].messages = SortByTimestamp(b)]
                    /\ returned' = returned \cup {b[i] : i \in 1..Len(b)}
               /\ polls' = polls + 1
            \/ /\ LoopTo(l, "check")
               /\ UNCHANGED <<returned, polls>>
            \/ /\ loops' = [loops EXCEPT ![l].pc = "check",
                                         ![l].error_count = @ + 1]
               /\ UNCHANGED <<returned, polls>>
    /\ UNCHANGED <<net_rest, net_base_url, deletes, reconnect_failed, net_connected, net_stop_receive, net_receive_thread,
                   net_receive_callback, net_last_timestamp, joining, delivered,
                   calls>>

\* _receive_loop, lines 404-415 and 462: the next message of the batch is
\* compared with _last_timestamp and skipped or kept; after the last one
\* error_count is reset.
LoopCompare ==
    /\ \E l \in 1..MaxLoops :
         /\ loops[l].pc = "batch"
         /\ IF loops[l].messages = <<>>
            THEN loops' = [loops EXCEPT ![l].pc = "check", ![l].error_count = 0]
            ELSE IF Head(loops[l].messages).timestamp <= net_last_timestamp
            THEN loops' = [loops EXCEPT ![l].messages = Tail(@)]
            ELSE LoopTo(l, "dispatch")
    /\ UNCHANGED <<net_rest, net_base_url, deletes, reconnect_failed, net_connected, net_stop_receive, net_receive_thread,
                   net_receive_callback, net_last_timestamp, joining, returned,
                   delivered, polls, calls>>

\* _receive_loop, lines 417-458: the mark is set and the frame is passed to
\* the callback, if there is one.
LoopDispatch ==
    /\ \E l \in 1..MaxLoops :
         /\ loops[l].pc = "dispatch"
         /\ LET m == Head(loops[l].messages) IN
            /\ net_last_timestamp' = m.timestamp
            /\ delivered' = IF net_receive_callback # 0
                            THEN Append(delivered, m)
                            ELSE delivered
         /\ loops' = [loops EXCEPT ![l].pc = "batch", ![l].messages = Tail(@)]
    /\ UNCHANGED <<net_rest, net_base_url, deletes, reconnect_failed, net_connected, net_stop_receive, net_receive_thread,
                   net_receive_callback, joining, returned, polls, calls>>

\* _receive_loop, lines 480-485: too many errors end the loop; else it
\* sleeps and goes on.
LoopCheck ==
    /\ \E l \in 1..MaxLoops :
         /\ loops[l].pc = "check"
         /\ LoopTo(l, IF loops[l].error_count >= max_errors THEN "ended" ELSE "top")
    /\ UNCHANGED <<net_rest, net_base_url, deletes, reconnect_failed, net_connected, net_stop_receive, net_receive_thread,
                   net_receive_callback, net_last_timestamp, joining, returned,
                   delivered, polls, calls>>

NetNext ==
    \/ NetConnect \/ StartReceiveThread \/ StopReceiveThread \/ NetDisconnect
    \/ JoinReturns
    \/ LoopTop \/ PollReturns \/ LoopCompare \/ LoopDispatch \/ LoopCheck

NetStart == Unused /\ NoMore
NetSpec == NetStart /\ [][NetNext]_vars

(* ---------------- claims on NetworkCANDriver ---------------------------- *)
\* The receive loops that are running.
Running == {l \in 1..MaxLoops : Alive(l)}
\* How often frame f was passed to a callback.
TimesDelivered(f) == Cardinality({i \in 1..Len(delivered) : delivered[i] = f})

\* C22: while a receive loop runs, _last_timestamp never decreases, and a
\* frame passed to the callback has a timestamp above the mark of that
\* moment (so the frames reach the callback in strictly increasing order of
\* timestamp, within a batch and from one batch to the next).
C22_HighWaterMark ==
    /\ [][ Running # {} => net_last_timestamp' >= net_last_timestamp ]_vars
    /\ [][ delivered' # delivered =>
             delivered'[Len(delivered')].timestamp > net_last_timestamp ]_vars

\* C23: once a receive loop has worked through its batch, every frame the
\* server has returned in a poll response has been passed to the callback
\* exactly once.
C23_Lossless ==
    (\A l \in 1..MaxLoops : loops[l].pc \notin {"batch", "dispatch"}) =>
        \A f \in returned : TimesDelivered(f) = 1

\* C24: a receive loop that has counted 10 failed polls in a row stops, and
\* the driver is then no longer connected; a poll that returns messages
\* resets the count to 0.
C24_ConnectionLost ==
    /\ [](\A l \in 1..MaxLoops :
            (loops[l].pc = "ended" /\ loops[l].error_count >= max_errors) =>
                ~net_connected)
    /\ [][ \A l \in 1..MaxLoops :
             /\ (loops[l].pc = "check" /\ loops[l].error_count >= max_errors) =>
                   loops'[l].pc \in {"check", "ended"}
             /\ (loops[l].pc = "batch" /\ loops'[l].pc = "check") =>
                   loops'[l].error_count = 0 ]_vars

\* C25: at most one receive loop of the driver is running.
C25_OneReceiveLoop == Cardinality(Running) <= 1


\* ---------------------------------------------------------------------
\* The message records of a remote server, as NetworkCANDriver and
\* BluetoothCANDriver parse them.  A string is the sequence of its
\* character codes.
\* ---------------------------------------------------------------------
\* The value of a hex digit, -1 for any other character.
HexVal(c) ==
    IF c \in 48..57 THEN c - 48
    ELSE IF c \in 65..70 THEN c - 55
    ELSE IF c \in 97..102 THEN c - 87
    ELSE -1
DigitCode(d) == IF d < 10 THEN 48 + d ELSE 55 + d

\* int(s, base) of a digit string, -1 where Python raises ValueError.
RECURSIVE Digits(_, _, _)
Digits(s, base, acc) ==
    IF s = <<>> THEN acc
    ELSE IF HexVal(s[1]) < 0 \/ HexVal(s[1]) >= base THEN -1
    ELSE Digits(Tail(s), base, acc * base + HexVal(s[1]))
StartsWith0x(s) == Len(s) >= 2 /\ s[1] = 48 /\ s[2] = 120
\* int(arb_id, 16) if arb_id.startswith("0x") else int(arb_id)
IntOfString(s) ==
    IF StartsWith0x(s)
    THEN (IF Len(s) = 2 THEN -1 ELSE Digits(SubSeq(s, 3, Len(s)), 16, 0))
    ELSE (IF s = <<>> THEN -1 ELSE Digits(s, 10, 0))

\* s.replace(' ', '')
RemoveSpaces(s) == SelectSeq(s, LAMBDA c : c # 32)
\* bytes.fromhex(s) for a string without spaces: whether it raises, and
\* the bytes.
RECURSIVE ValidHex(_)
ValidHex(s) ==
    \/ s = <<>>
    \/ /\ Len(s) >= 2 /\ HexVal(s[1]) >= 0 /\ HexVal(s[2]) >= 0
       /\ ValidHex(SubSeq(s, 3, Len(s)))
RECURSIVE FromHex(_)
FromHex(s) ==
    IF s = <<>> THEN <<>>
    ELSE <<16 * HexVal(s[1]) + HexVal(s[2])>> \o FromHex(SubSeq(s, 3, Len(s)))

\* What a server writes: the hex digits of a number, "0x" in front of an
\* id, two digits a byte, optionally a space between the bytes.
RECURSIVE HexOf(_)
HexOf(n) == IF n < 16 THEN <<DigitCode(n)>> ELSE HexOf(n \div 16) \o <<DigitCode(n % 16)>>
HexId(n) == <<48, 120>> \o HexOf(n)
RECURSIVE HexBytes(_, _)
HexBytes(d, sep) ==
    IF d = <<>> THEN <<>>
    ELSE <<DigitCode(d[1] \div 16), DigitCode(d[1] % 16)>>
         \o (IF Len(d) > 1 THEN sep ELSE <<>>) \o HexBytes(Tail(d), sep)

\* The frames a server reports, and the forms of their records.
ReportedIds == {291, 2048}
ReportedData == {<<>>, <<1, 171>>, <<1, 2, 3, 4, 5, 6, 7, 8, 9>>}
ReportedDlc == {Absent, Json("int", <<0>>), Json("int", <<2>>), Json("int", <<5>>)}
IdForms(n) == {Json("int", <<n>>), Json("str", HexId(n))}
DataForms(d) ==
    {Json("list", d), Json("str", HexBytes(d, <<>>)), Json("str", HexBytes(d, <<32>>))}
Records ==
    UNION { UNION { [id : IdForms(n), data : DataForms(d), data_hex : {Absent},
                     dlc : ReportedDlc,
                     is_extended : {Absent, Json("bool", <<1>>)},
                     means : {[id |-> n, data |-> d]}]
                    : d \in ReportedData } : n \in ReportedIds }

Failed(by, status) == [NotParsed EXCEPT !.by = by, !.status = status]
Truthy(j) == j.type # "none" /\ j.v # <<>>

\* NetworkCANDriver._receive_loop, lines 420-454, with
\* CANMessage.__post_init__, lines 46-48.  An exception leaves the loop
\* over the batch and counts the poll as an error.
NetworkFrame(r) ==
    LET d == r.data
        hex == RemoveSpaces(d.v)
        raw1 == IF d.type = "str" THEN FromHex(hex) ELSE d.v
        hex2 == RemoveSpaces(r.data_hex.v)
        use2 == raw1 = <<>> /\ Truthy(r.data_hex)
        raw_data == IF use2 THEN FromHex(hex2) ELSE raw1
        dlc0 == IF r.dlc.type = "none" THEN Len(raw_data) ELSE r.dlc.v[1]
    IN  IF d.type = "str" /\ ~ValidHex(hex) THEN Failed("network", "error")
        ELSE IF d.type = "list" /\ \E i \in 1..Len(d.v) : d.v[i] \notin 0..255
            THEN Failed("network", "error")
        ELSE IF use2 /\ ~ValidHex(hex2) THEN Failed("network", "error")
        \* msg_id > 0x7FF is evaluated whether or not is_extended is given
        ELSE IF r.id.type = "str" THEN Failed("network", "error")
        ELSE [by |-> "network", status |-> "frame",
              id |-> IF r.id.type = "none" THEN 0 ELSE r.id.v[1],
              data |-> raw_data,
              dlc |-> IF dlc0 = 0 THEN Len(raw_data) ELSE dlc0,
              is_extended |-> IF r.is_extended.type = "none"
                              THEN (IF r.id.type = "none" THEN FALSE
                                    ELSE r.id.v[1] > 2047)
                              ELSE r.is_extended.v[1] = 1]

\* BluetoothCANDriver._parse_message, lines 329-367.  An exception
\* returns None and the frame is dropped.
BluetoothFrame(r) ==
    LET arb_id == IF r.id.type = "str" THEN IntOfString(r.id.v)
                  ELSE IF r.id.type = "none" THEN 0 ELSE r.id.v[1]
        data_hex == IF Truthy(r.data_hex) THEN r.data_hex
                    ELSE IF r.data.type = "none" THEN Json("str", <<>>)
                    ELSE r.data
        hex == RemoveSpaces(data_hex.v)
        data == IF data_hex.type = "str" THEN FromHex(hex)
                ELSE IF data_hex.type = "list" THEN data_hex.v
                ELSE <<>>
    IN  IF arb_id < 0 THEN Failed("bluetooth", "dropped")
        ELSE IF data_hex.type = "str" /\ ~ValidHex(hex)
            THEN Failed("bluetooth", "dropped")
        ELSE IF data_hex.type = "list" /\ \E i \in 1..Len(data_hex.v) : data_hex.v[i] \notin 0..255
            THEN Failed("bluetooth", "dropped")
        ELSE [by |-> "bluetooth", status |-> "frame", id |-> arb_id,
              data |-> data, dlc |-> Len(data),
              is_extended |-> IF r.is_extended.type = "none" THEN arb_id > 2047
                              ELSE r.is_extended.v[1] = 1]

parse_rest == <<old_vars, net_vars, bt_vars, agg_vars, dec_vars,
      ws_vars,
      conn_vars>>
NetworkParse ==
    /\ parsed = NotParsed
    /\ parsed' = NetworkFrame(record)
    /\ UNCHANGED <<parse_rest, record>>
BluetoothParse ==
    /\ parsed = NotParsed
    /\ parsed' = BluetoothFrame(record)
    /\ UNCHANGED <<parse_rest, record>>
ParseNext == NetworkParse \/ BluetoothParse
ParseStart ==
    /\ Unused /\ NoNet /\ NoBt /\ NoAgg /\ NoDec /\ NoWs /\ NoConn
    /\ record \in Records
    /\ parsed = NotParsed
ParseSpec == ParseStart /\ [][ParseNext]_vars

\* C26: a driver makes of every record the frame the record means, the
\* id given as an integer or as a hex string "0x...", the data as a byte
\* array or as a hex string with or without spaces; no record is dropped
\* and none makes the poll fail.
C26_SameFrameFromEveryForm ==
    parsed # NotParsed =>
        /\ parsed.status = "frame"
        /\ parsed.id = record.means.id
        /\ parsed.data = record.means.data

\* C27: every frame a driver hands to the receive callback has
\* dlc = len(data) and dlc <= 8, whatever dlc and data the server gave.
C27_DlcIsLength ==
    parsed.status = "frame" =>
        /\ parsed.dlc = Len(parsed.data)
        /\ parsed.dlc <= 8


\* ---------------------------------------------------------------------
\* BluetoothCANDriver: commands and their responses on one socket.  A
\* line of the server is a response (re: the command it answers, which
\* the line itself does not say) or a pushed event.
\* ---------------------------------------------------------------------
MaxCommands == 3
MaxPushes == 1
Response(cmd) == [event |-> "none", re |-> cmd]
MessagesEvent == [event |-> "messages", re |-> 0]
\* {"success": False, "error": "Timeout waiting for response"}
TimeoutResult == [event |-> "timeout", re |-> 0]

bt_rest == <<old_vars, net_vars, parse_vars, agg_vars, dec_vars,
      ws_vars,
      conn_vars>>
CommandTo(c, p) == [commands EXCEPT ![c].pc = p]
Returns(c, response) ==
    /\ command_results' = Append(command_results,
                                 [caller |-> c, cmd |-> commands[c].cmd, got |-> response])
    /\ commands' = [commands EXCEPT ![c] = NoCommand]

\* _send_command, lines 369-381: the driver is connected; the pending
\* responses are cleared under the lock.
SendCommandClear(c) ==
    /\ commands[c].pc = "idle"
    /\ issued < MaxCommands
    /\ issued' = issued + 1
    /\ commands' = [commands EXCEPT ![c] = [pc |-> "send", cmd |-> issued + 1]]
    /\ pending_responses' = <<>>
    /\ UNCHANGED <<bt_rest, socket_out, socket_in, command_results, pushed>>

\* lines 383-387: the command is written to the socket.
SendCommandSend(c) ==
    /\ commands[c].pc = "send"
    /\ socket_out' = Append(socket_out, commands[c].cmd)
    /\ commands' = CommandTo(c, "wait")
    /\ UNCHANGED <<bt_rest, socket_in, pending_responses, command_results, issued, pushed>>

\* lines 389-394: a pass of the wait loop that finds a response takes the
\* first one.
SendCommandReturn(c) ==
    /\ commands[c].pc = "wait"
    /\ pending_responses # <<>>
    /\ Returns(c, Head(pending_responses))
    /\ pending_responses' = Tail(pending_responses)
    /\ UNCHANGED <<bt_rest, socket_out, socket_in, issued, pushed>>

\* line 396: the timeout has passed and no response was found.
SendCommandTimeout(c) ==
    /\ commands[c].pc = "wait"
    /\ pending_responses = <<>>
    /\ Returns(c, TimeoutResult)
    /\ UNCHANGED <<bt_rest, socket_out, socket_in, pending_responses, issued, pushed>>

\* The server answers the commands in the order it reads them.
ServerResponds ==
    /\ socket_out # <<>>
    /\ socket_in' = Append(socket_in, Response(Head(socket_out)))
    /\ socket_out' = Tail(socket_out)
    /\ UNCHANGED <<bt_rest, commands, pending_responses, command_results, issued, pushed>>

\* The server pushes the frames it has received.
ServerPushes ==
    /\ pushed < MaxPushes
    /\ pushed' = pushed + 1
    /\ socket_in' = Append(socket_in, MessagesEvent)
    /\ UNCHANGED <<bt_rest, commands, socket_out, pending_responses, command_results,
                   issued>>

\* _receive_loop, lines 268-284, and _handle_response, lines 297-314: a
\* line with event == "messages" goes to _process_messages, any other
\* line joins the pending responses.
HandleResponse ==
    /\ socket_in # <<>>
    /\ socket_in' = Tail(socket_in)
    /\ IF Head(socket_in).event = "messages"
       THEN UNCHANGED pending_responses
       ELSE pending_responses' = Append(pending_responses, Head(socket_in))
    /\ UNCHANGED <<bt_rest, commands, socket_out, command_results, issued, pushed>>

BtNext ==
    \/ \E c \in Callers : SendCommandClear(c)
    \/ \E c \in Callers : SendCommandSend(c)
    \/ \E c \in Callers : SendCommandReturn(c)
    \/ \E c \in Callers : SendCommandTimeout(c)
    \/ ServerResponds
    \/ ServerPushes
    \/ HandleResponse
BtStart == Unused /\ NoMore
BtSpec == BtStart /\ [][BtNext]_vars

\* C28: what _send_command returns to a caller is the response the
\* server sent for that caller's command, also after an earlier command
\* timed out and with two calling threads; a late response is never the
\* result of a later command, and a pushed "messages" event is never
\* returned as a response.
C28_FifoCorrelation ==
    \A i \in 1..Len(command_results) :
        LET r == command_results[i] IN
        /\ r.got.event # "messages"
        /\ r.got.event = "none" => r.got.re = r.cmd


\* ---------------------------------------------------------------------
\* The message table of the GUI (GUI_Master.py and PythonCAN-GUI.py).
\* ---------------------------------------------------------------------
MaxFrames == 3
TableFrames == [id : AggIds, is_extended : BOOLEAN, data : {<<1>>, <<2>>}]
agg_rest ==
    <<job, pc, firmware_data, result, events, rx, bus, wait_vars, write_vars,
      verify_vars, target_vars, image_vars, backend_vars, flash_in_progress,
      flash_response_data, flash_response_event, threads, message_data,
      net_vars, parse_vars, bt_vars, dec_vars,
      ws_vars,
      conn_vars>>

\* _on_message_received, GUI_Master.py lines 818-863 (PythonCAN-GUI.py
\* lines 505-553 is the same): the row of msg.id is counted up and takes
\* the new data, or is made with the type of this first frame.  The
\* thermistor and cell voltage displays and the decoding only show.
TableMessageReceived ==
    /\ Len(frames_seen) < MaxFrames
    /\ \E msg \in TableFrames :
         /\ frames_seen' = Append(frames_seen, msg)
         /\ total_messages' = total_messages + 1
         /\ msg_table' =
              [msg_table EXCEPT ![msg.id] =
                 IF @.type # "none"
                 THEN [@ EXCEPT !.count = @ + 1, !.data = msg.data]
                 ELSE [type |-> IF msg.is_extended THEN "EXT" ELSE "STD",
                       count |-> 1, data |-> msg.data]]
    /\ UNCHANGED agg_rest
AggNext == TableMessageReceived
AggStart == Unused /\ NoMore
AggSpec == AggStart /\ [][AggNext]_vars

\* The number of frames received with this id and this extended flag.
Observed(id, ext) ==
    Cardinality({i \in 1..Len(frames_seen) :
                   frames_seen[i].id = id /\ frames_seen[i].is_extended = ext})

\* C29: for every pair (id, extended) that was received, the table has a
\* record of that pair whose count is the number of frames received with
\* exactly that id and that flag; the same id with the other flag is
\* counted in another record.
C29_CountPerIdAndFlag ==
    \A id \in AggIds, ext \in BOOLEAN :
        Observed(id, ext) > 0 =>
            /\ msg_table[id].type = (IF ext THEN "EXT" ELSE "STD")
            /\ msg_table[id].count = Observed(id, ext)


\* ---------------------------------------------------------------------
\* The backend's DBC decoding (api.py).  The database is the cantools
\* library's: what the backend asks of it is the message of a frame id,
\* a number.
\* ---------------------------------------------------------------------
MaxDecodes == 2
\* The messages a DBC file may give a frame id: none, a standard one or an
\* extended one.
DbcMessages(i) ==
    {NoMessage} \cup {[frame_id |-> i, is_extended_frame |-> e] : e \in BOOLEAN}
DecodeIds == DbcIds \cup {536870912 + 256}
dec_rest == <<old_vars, net_vars, parse_vars, bt_vars, agg_vars,
      ws_vars,
      conn_vars>>

\* load_dbc_file, lines 419-430.
LoadDbcFile ==
    /\ ~dbc_database.loaded
    /\ \E m \in [DbcIds -> UNION {DbcMessages(i) : i \in DbcIds}] :
         /\ \A i \in DbcIds : m[i] \in DbcMessages(i)
         /\ dbc_database' = [loaded |-> TRUE, messages |-> m]
    /\ UNCHANGED <<dec_rest, decodes>>

\* get_message_by_frame_id(lookup_id): KeyError (None here) for an id
\* without message.
MessageByFrameId(lookup_id) ==
    IF lookup_id \in DbcIds THEN dbc_database.messages[lookup_id] ELSE NoMessage

\* decode_message, lines 481-498: None without database; the extended
\* bits are masked off an extended id; the message found for the number
\* decodes the data.
SchemaOf(can_id, is_extended) ==
    LET lookup_id == IF is_extended THEN can_id % 536870912 ELSE can_id
    IN  IF ~dbc_database.loaded THEN NoMessage ELSE MessageByFrameId(lookup_id)
DecodeMessage ==
    /\ Cardinality(decodes) < MaxDecodes
    /\ \E can_id \in DecodeIds, is_extended \in BOOLEAN, data \in {<<1>>, <<2>>} :
         decodes' = decodes \cup
             {[can_id |-> can_id, is_extended |-> is_extended, data |-> data,
               with_dbc |-> dbc_database.loaded,
               by |-> "backend",
               lookup_id |-> IF is_extended THEN can_id % 536870912 ELSE can_id,
               bit31 |-> FALSE,
               message |-> SchemaOf(can_id, is_extended)]}
    /\ UNCHANGED <<dec_rest, dbc_database>>

\* PCANExplorerGUI._decode_message, GUI_Master.py lines 741-756 (and
\* _get_message_name, lines 807-816, with the same lookup): None without
\* database; an extended id gets bit 31 (0x80000000), held apart here as
\* it does not fit the integers; no message of the file has that bit.
GuiDecodeMessage ==
    /\ Cardinality(decodes) < MaxDecodes
    /\ \E can_id \in DecodeIds, is_extended \in BOOLEAN, data \in {<<1>>, <<2>>} :
         decodes' = decodes \cup
             {[can_id |-> can_id, is_extended |-> is_extended, data |-> data,
               with_dbc |-> dbc_database.loaded,
               by |-> "gui",
               lookup_id |-> can_id,
               bit31 |-> is_extended,
               message |-> IF ~dbc_database.loaded \/ is_extended THEN NoMessage
                           ELSE MessageByFrameId(can_id)]}
    /\ UNCHANGED <<dec_rest, dbc_database>>
DecNext == LoadDbcFile \/ DecodeMessage \/ GuiDecodeMessage
DecStart == Unused /\ NoMore
DecSpec == DecStart /\ [][DecNext]_vars

\* C30: decode selects the schema from the pair (id, extended) only: two
\* decodings of the same pair select the same entry whatever the payload,
\* and a standard and an extended frame of the same number never resolve
\* to the same schema entry.
C30_SchemaByIdAndFlag ==
    \A a \in decodes, b \in decodes :
        (a.with_dbc /\ b.with_dbc /\ a.by = "backend" /\ b.by = "backend") =>
        /\ (a.can_id = b.can_id /\ a.is_extended = b.is_extended) => a.message = b.message
        /\ (a.can_id = b.can_id /\ a.is_extended # b.is_extended /\ a.message # NoMessage)
              => a.message # b.message

\* ---------------------------------------------------------------------
\* The backend's WebSocket broadcast (api.py): the receive thread hands
\* every frame to _on_message_received, which schedules one
\* broadcast_message coroutine for it on the event loop.
\* ---------------------------------------------------------------------
MaxWsFrames == 2
WsFrames == [id : DbcIds, data : {<<>>, <<1>>}]
\* The DBC file in use: none, or one with a standard message 256.
WsDatabases ==
    {[loaded |-> FALSE, messages |-> [i \in DbcIds |-> NoMessage]],
     [loaded |-> TRUE,
      messages |-> [i \in DbcIds |-> IF i = 256
                                     THEN [frame_id |-> 256, is_extended_frame |-> FALSE]
                                     ELSE NoMessage]]}
ws_rest ==
    <<job, pc, firmware_data, result, events, rx, bus, wait_vars, write_vars,
      verify_vars, target_vars, image_vars, driver, device_type, is_connected,
      start_time, pending, arrived, uploads, last_reply, created, open,
      gui_vars, dec_vars, net_vars, parse_vars, bt_vars, agg_vars,
      conn_vars>>

NewTask(n) == [n |-> n, pc |-> "new", index |-> 0, conn |-> 0, failed |-> FALSE,
               disconnected |-> {}]

\* How decode_message (lines 481-558) ends for a frame: without database
\* it is not called; KeyError without message for the id; message.decode
\* raises on data that is too short.  All but "ok" give None.
DecodeOutcome(frame) ==
    IF ~dbc_database.loaded THEN "no_dbc"
    ELSE IF SchemaOf(frame.id, FALSE) = NoMessage THEN "KeyError"
    ELSE IF frame.data = <<>> THEN "raises"
    ELSE "ok"

\* websocket_can_messages, lines 1082-1089, with add_websocket_connection,
\* lines 614-617.
WsAttach(s) ==
    /\ sockets[s] = "none"
    /\ loop_set' = TRUE
    /\ active_connections' = Append(active_connections, s)
    /\ sockets' = [sockets EXCEPT ![s] = "open"]
    /\ since' = [since EXCEPT ![s] = Len(handed)]
    /\ UNCHANGED <<ws_rest, message_count, tasks, ws_received, handed>>

\* The client's connection breaks; the handler has not seen it yet.
WsBreak(s) ==
    /\ sockets[s] = "open"
    /\ sockets' = [sockets EXCEPT ![s] = "broken"]
    /\ UNCHANGED <<ws_rest, message_count, active_connections, loop_set, tasks,
                   ws_received, handed, since>>

\* websocket_can_messages, lines 1091-1102: receive_text raises and the
\* handler removes the connection (remove_websocket_connection, 619-622).
WsDetach(s) ==
    /\ sockets[s] \in {"open", "broken"}
    /\ sockets' = [sockets EXCEPT ![s] = "closed"]
    /\ active_connections' = SelectSeq(active_connections, LAMBDA x : x # s)
    /\ UNCHANGED <<ws_rest, message_count, loop_set, tasks, ws_received, handed, since>>

\* _on_message_received as it would be if decode_message let its
\* exceptions through: the frame is counted and nothing is scheduled.
WsMessageReceivedDecodeRaises ==
    /\ Len(handed) < MaxWsFrames
    /\ \E frame \in WsFrames :
         /\ message_count' = message_count + 1
         /\ handed' = Append(handed, [frame |-> frame, why |-> DecodeOutcome(frame),
                                      decoded |-> DecodeOutcome(frame) = "ok"])
         /\ tasks' = IF loop_set /\ DecodeOutcome(frame) \in {"ok", "no_dbc"}
                     THEN Append(tasks, NewTask(Len(handed) + 1)) ELSE tasks
    /\ UNCHANGED <<ws_rest, active_connections, loop_set, sockets, ws_received, since>>

\* _on_message_received, lines 560-596: count, build message_data, add
\* 'decoded' when decode_message gave something, schedule the broadcast
\* when the loop is known.
WsMessageReceived ==
    /\ Len(handed) < MaxWsFrames
    /\ \E frame \in WsFrames :
         /\ message_count' = message_count + 1
         /\ handed' = Append(handed, [frame |-> frame, why |-> DecodeOutcome(frame),
                                      decoded |-> DecodeOutcome(frame) = "ok"])
         /\ tasks' = IF loop_set THEN Append(tasks, NewTask(Len(handed) + 1)) ELSE tasks
    /\ UNCHANGED <<ws_rest, active_connections, loop_set, sockets, ws_received, since>>

\* broadcast_message, lines 598-612: the for loop takes the next
\* connection of the list as it is now and calls send_json, which writes
\* to an open socket and suspends the coroutine; past the end of the list
\* the connections whose send failed are removed.  Coroutines start in
\* the order they were scheduled.
BroadcastStep(t) ==
    /\ t <= Len(tasks)
    /\ tasks[t].pc \in {"new", "loop"}
    /\ tasks[t].pc = "new" => \A u \in 1..(t - 1) : tasks[u].pc # "new"
    /\ IF tasks[t].index < Len(active_connections)
       THEN LET c == active_connections[tasks[t].index + 1] IN
            /\ tasks' = [tasks EXCEPT ![t].pc = "await", ![t].index = @ + 1,
                                      ![t].conn = c,
                                      ![t].failed = sockets[c] # "open"]
            /\ ws_received' = IF sockets[c] = "open"
                              THEN [ws_received EXCEPT ![c] = Append(@, tasks[t].n)]
                              ELSE ws_received
            /\ UNCHANGED active_connections
       ELSE /\ tasks' = [tasks EXCEPT ![t].pc = "done"]
            /\ active_connections' =
                 SelectSeq(active_connections, LAMBDA x : x \notin tasks[t].disconnected)
            /\ UNCHANGED ws_received
    /\ UNCHANGED <<ws_rest, message_count, loop_set, sockets, handed, since>>

\* lines 603-607: send_json returns or raises, and the loop goes on.
BroadcastResume(t) ==
    /\ t <= Len(tasks)
    /\ tasks[t].pc = "await"
    /\ tasks' = [tasks EXCEPT ![t].pc = "loop",
                              ![t].disconnected =
                                  IF tasks[t].failed THEN @ \cup {tasks[t].conn} ELSE @]
    /\ UNCHANGED <<ws_rest, message_count, active_connections, loop_set, sockets,
                   ws_received, handed, since>>

WsNext ==
    \/ \E s \in Subscribers : WsAttach(s)
    \/ \E s \in Subscribers : WsBreak(s)
    \/ \E s \in Subscribers : WsDetach(s)
    \/ WsMessageReceived
    \/ \E t \in 1..MaxWsFrames : BroadcastStep(t)
    \/ \E t \in 1..MaxWsFrames : BroadcastResume(t)
WsStart ==
    /\ Unused /\ NoNet /\ NoRecord /\ NoBt /\ NoAgg /\ NoWs /\ NoConn
    /\ dbc_database \in WsDatabases
    /\ decodes = {}
WsSpec == WsStart /\ [][WsNext]_vars

\* C31: when decoding a received frame fails (no DBC loaded, no message
\* for the id, or the decoder raises), the frame is still counted in
\* message_count and its broadcast is still scheduled for the
\* subscribers, with no 'decoded' field.
C31_UndecodedStillBroadcast ==
    [][ Len(handed') = Len(handed) + 1 =>
          LET m == handed'[Len(handed')] IN
          /\ message_count' = message_count + 1
          /\ m.why # "ok" =>
               /\ ~m.decoded
               /\ active_connections # <<>> =>
                    /\ Len(tasks') = Len(tasks) + 1
                    /\ tasks'[Len(tasks')] = NewTask(Len(handed')) ]_vars
C31_Witness ==
    /\ Len(handed) = 1 /\ handed[1].why = "raises" /\ ~handed[1].decoded
    /\ message_count = 1
    /\ tasks # <<>> /\ tasks[1].pc = "done"
    /\ ws_received[1] = <<1>>

\* C32: every subscriber is written the frames in the order in which the
\* receive thread handed them over, however the broadcast coroutines
\* interleave at their awaits.
C32_OrderPerSubscriber ==
    \A s \in Subscribers :
        \A i \in 1..Len(ws_received[s]), j \in 1..Len(ws_received[s]) :
            i < j => ws_received[s][i] < ws_received[s][j]

\* C33: a subscriber that stays attached and healthy is written every
\* frame whose broadcast has ended and that was handed over after it was
\* attached, whatever other subscribers do meanwhile; and a broadcast
\* removes only the subscribers whose send failed.
C33_NoFrameSkipped ==
    /\ \A s \in Subscribers : \A t \in 1..Len(tasks) :
         (sockets[s] = "open" /\ tasks[t].pc = "done" /\ tasks[t].n > since[s])
            => \E i \in 1..Len(ws_received[s]) : ws_received[s][i] = tasks[t].n
    /\ \A s \in Subscribers :
         sockets[s] = "open" => \E i \in 1..Len(active_connections) : active_connections[i] = s

\* ---------------------------------------------------------------------
\* write_firmware as a whole (Firmware_Flasher.py lines 363-433).
\* ---------------------------------------------------------------------
\* write_firmware returned True.
WriteReturnedTrue == HasMessage("Write complete")
SetAddresses == {i \in 1..Len(bus) : IsCommand(i, CMD_SET_ADDRESS)}
\* The i-th frame of the bus is the WRITE_DATA of chunk k (from 0).
IsWriteOfChunk(i, k) ==
    /\ bus[i].id = CAN_HOST_ID
    /\ bus[i].data = <<CMD_WRITE_DATA, 4, firmware_data[4 * k + 1], firmware_data[4 * k + 2],
                       firmware_data[4 * k + 3], firmware_data[4 * k + 4], 0, 0>>

\* C34: when write_firmware succeeded on a padded image of length L,
\* exactly L/4 WRITE_DATA frames are on the bus, the k-th with the
\* payload [0x07, 0x04, image[4k..4k+3], 0, 0] on 0x18000701, in
\* increasing k, after exactly one SET_ADDRESS with 0x08008000 big-endian;
\* exactly L/4 ACKs were counted and every WRITE_DATA has its ACK counted.
C34_WriteFrames ==
    WriteReturnedTrue =>
        LET L == Len(firmware_data) IN
        /\ L % 4 = 0
        /\ Cardinality(Writes) = L \div 4
        /\ Cardinality(SetAddresses) = 1
        /\ \A a \in SetAddresses :
             /\ bus[a].data = <<CMD_SET_ADDRESS, 8, 0, 128, 0, 0, 0, 0>>
             /\ Writes = (a + 1)..(a + L \div 4)
             /\ \A i \in Writes : IsWriteOfChunk(i, i - a - 1)
        /\ Len(ack_refs) = L \div 4
        /\ Unmatched = {}
C34_Witness ==
    /\ WriteReturnedTrue
    /\ Len(firmware_data) = 12
    /\ batch_size = 2
    /\ Cardinality(Writes) = 3
    /\ ack_refs = <<4, 5, 6>>

\* C35: every decoder looks an extended frame up under id & 0x1FFFFFFF,
\* and none sets bit 31 (0x80000000) on an id before the lookup, in the
\* backend and in the GUI alike.
C35_MaskOffEverywhere ==
    \A d \in decodes :
        d.with_dbc =>
            /\ ~d.bit31
            /\ d.lookup_id = (IF d.is_extended THEN d.can_id % 536870912 ELSE d.can_id)

\* ---------------------------------------------------------------------
\* NetworkCANDriver: starting the receive thread, and connecting again.
\* ---------------------------------------------------------------------
\* This step starts a receive loop.
LoopStarted == \E l \in 1..MaxLoops : loops[l] = NoLoop /\ loops'[l] # NoLoop

\* C36: start_receive_thread starts a thread only when the driver is
\* connected and no receive thread is alive; it then sets the mark to 0
\* and sends one DELETE /api/messages, before the first poll of the new
\* loop; no DELETE is sent otherwise.
C36_StartClearsOnce ==
    [][ /\ LoopStarted =>
             /\ net_connected
             /\ Running = {}
             /\ net_last_timestamp' = 0
             /\ deletes' = deletes + 1
             /\ \A l \in 1..MaxLoops : loops[l] = NoLoop => loops'[l].pc \in {"none", "top"}
        /\ deletes' # deletes => LoopStarted ]_vars

\* C39: after connect and disconnect the driver still targets its host
\* and port, and a connect that the server answers succeeds.
C39_ConnectAgain ==
    /\ net_base_url = "http://host:port"
    /\ ~reconnect_failed

\* ---------------------------------------------------------------------
\* flash_firmware with a file that cannot be read and a driver whose
\* calls may raise (Firmware_Flasher.py lines 557-602).
\* ---------------------------------------------------------------------
ExceptionEvent == Progress("error", 0, "Error: exception", 0)

\* The places of the engine whose next step is a call of
\* driver.send_message or driver.read_message.
InDriverCall ==
    \/ pc \in {"reset", "reset_wait", "wait", "erase", "flush_write", "flush_addr",
               "addr_send", "addr_wait", "verify_send", "jump"}
    \/ pc = "write_loop" /\ bytes_written < Len(firmware_data)

\* lines 559-560 and 600-602: firmware_path.read_bytes() raises.
ReadRaises ==
    /\ pc = "start"
    /\ ReturnFalse(<<Progress("write", 0, "Loading", 0), ExceptionEvent>>)
    /\ UNCHANGED <<job, others, firmware_data, rx, bus, wait_vars, write_vars,
                   verify_vars, target_vars>>

\* lines 600-602: the driver call of this step raises.
DriverRaises ==
    /\ InDriverCall
    /\ Raise
    /\ UNCHANGED <<job, others, firmware_data, rx, bus, wait_vars, write_vars,
                   verify_vars, target_vars>>

RaiseNext == Next \/ ReadRaises \/ DriverRaises
RaiseSpec == Init /\ [][RaiseNext]_vars

ErrorEvents == {i \in 1..Len(events) : events[i].stage = "error"}

\* C37: an exception raised while the file is read or by a driver call in
\* any stage ends flash_firmware with the result False, with exactly one
\* 'error' event and without a 'complete' event.
C37_ExceptionsBecomeOneError ==
    HasMessage("Error: exception") =>
        /\ pc = "done"
        /\ result = FALSE
        /\ Cardinality(ErrorEvents) = 1
        /\ events[Len(events)] = ExceptionEvent
        /\ ~HasEvent("complete")
C37_Witness ==
    /\ HasMessage("Error: exception")
    /\ HasMessage("Verifying flash")
    /\ pc = "done"
    /\ bus # <<>>

(* ------------- the responses of the bootloader in the tabbed GUI --------- *)
\* Thread t is the only flash thread there has been, it has sent its command
\* and is in the wait of _wait_for_response; the bootloader has answered the
\* last command on the bus and the receive thread has delivered every frame.
ResponseDelivered(t) ==
    /\ threads[t].pc = "wait"
    /\ \A u \in 1..MaxJobs \ {t} : threads[u] = NoThread
    /\ bus # <<>> /\ Len(tresp) = Len(bus)
    /\ tresp[Len(tresp)] # NoMsg
    /\ tresp[Len(tresp)].id = CAN_BOOTLOADER_ID
    /\ rx = <<>>

\* C38: no bootloader response is lost in the tabbed GUI flasher: a frame with
\* the bootloader ID that the receive thread delivered after the command was
\* sent is observed by the next _wait_for_response of the flash thread (the
\* event is set when the thread waits), also when the frame arrived between
\* the send and the clearing of the event.
C38_NoResponseLost ==
    \A t \in 1..MaxJobs : ResponseDelivered(t) => flash_response_event

(* ------------- the connection of the Bluetooth driver ------------------- *)
\* One BluetoothCANDriver (Bluetooth_Driver.py) with its receive thread and
\* the RFCOMM link; its client makes one call at a time.  The commands of
\* the calls (subscribe, unsubscribe) are those of SendCommandSend above and
\* do not touch the connection.  The join of disconnect (line 231) ends with
\* the loop, which leaves its recv within 0.5 s once the socket is closed.
conn_rest == <<old_vars, net_vars, parse_vars, bt_vars, agg_vars, dec_vars,
               ws_vars>>

\* threading.Thread.is_alive() of the receive thread.
ThreadAlive == bt_loop \in {"top", "recv", "exit"}

\* A call returns value to the client.
BtReturns(op, value) ==
    /\ bt_done' = [op |-> op, value |-> value]
    /\ bt_calls' = bt_calls + 1
\* The client may make a call.
BtIdle == bt_call = NoCall /\ bt_calls < MaxBtCalls

\* connect, lines 127-196: already connected; no Bluetooth or a malformed
\* address; the socket cannot be connected; or the socket is connected and
\* the receive thread is started.
BtConnect ==
    /\ BtIdle
    /\ IF bt_connected
       THEN /\ BtReturns("connect", TRUE)
            /\ UNCHANGED <<bt_connected, bt_socket, bt_stop_receive,
                           bt_receive_thread, bt_loop, link, unclosed>>
       ELSE \E outcome \in {"invalid", "refused", "ok"} :
              CASE outcome = "invalid" ->
                     /\ BtReturns("connect", FALSE)
                     /\ UNCHANGED <<bt_connected, bt_socket, bt_stop_receive,
                                    bt_receive_thread, bt_loop, link, unclosed>>
                [] outcome = "refused" ->
                     /\ bt_socket' = "None"
                     /\ BtReturns("connect", FALSE)
                     /\ UNCHANGED <<bt_connected, bt_stop_receive,
                                    bt_receive_thread, bt_loop, link, unclosed>>
                [] OTHER ->
                     /\ bt_socket' = "socket"
                     /\ unclosed' = unclosed + 1
                     /\ link' = "up"
                     /\ bt_connected' = TRUE
                     /\ bt_stop_receive' = FALSE
                     /\ bt_receive_thread' = "thread"
                     /\ bt_loop' = "top"
                     /\ BtReturns("connect", TRUE)
    /\ UNCHANGED <<conn_rest, bt_message_callback, bt_call>>

\* disconnect, lines 207-234, up to its join: nothing when not connected;
\* else the flags are set and the socket is closed.
BtDisconnect ==
    /\ BtIdle
    /\ IF ~bt_connected
       THEN /\ BtReturns("disconnect", TRUE)
            /\ UNCHANGED <<bt_connected, bt_socket, bt_stop_receive, link,
                           unclosed, bt_call>>
       ELSE /\ bt_stop_receive' = TRUE
            /\ bt_connected' = FALSE
            /\ IF bt_socket # "None"
               THEN /\ unclosed' = unclosed - 1
                    /\ link' = "none"
                    /\ bt_socket' = "None"
               ELSE UNCHANGED <<unclosed, link, bt_socket>>
            /\ IF bt_receive_thread # "None" /\ ThreadAlive
               THEN /\ bt_call' = "disconnect"
                    /\ UNCHANGED <<bt_done, bt_calls>>
               ELSE /\ BtReturns("disconnect", TRUE)
                    /\ UNCHANGED bt_call
    /\ UNCHANGED <<conn_rest, bt_receive_thread, bt_message_callback, bt_loop>>

\* disconnect, lines 230-234: the join ends and disconnect returns.
BtDisconnectJoin ==
    /\ bt_call = "disconnect"
    /\ ~ThreadAlive
    /\ bt_call' = NoCall
    /\ BtReturns("disconnect", TRUE)
    /\ UNCHANGED <<conn_rest, bt_connected, bt_socket, bt_stop_receive,
                   bt_receive_thread, bt_message_callback, bt_loop, link,
                   unclosed>>

\* stop_receive_thread, lines 236-247: False without a live thread; else the
\* stop flag is set and the thread is joined.
BtStopReceiveThread ==
    /\ BtIdle
    /\ IF bt_receive_thread = "None" \/ ~ThreadAlive
       THEN /\ BtReturns("stop_receive_thread", FALSE)
            /\ UNCHANGED <<bt_stop_receive, bt_call>>
       ELSE /\ bt_stop_receive' = TRUE
            /\ bt_call' = "stop_receive_thread"
            /\ UNCHANGED <<bt_done, bt_calls>>
    /\ UNCHANGED <<conn_rest, bt_connected, bt_socket, bt_receive_thread,
                   bt_message_callback, bt_loop, link, unclosed>>

\* stop_receive_thread, lines 247-257: the join(timeout=2.0) ends; a thread
\* that is still alive makes it return False.
BtStopJoin ==
    /\ bt_call = "stop_receive_thread"
    /\ bt_call' = NoCall
    /\ IF ThreadAlive
       THEN /\ BtReturns("stop_receive_thread", FALSE)
            /\ UNCHANGED <<bt_receive_thread, bt_message_callback>>
       ELSE /\ bt_receive_thread' = "None"
            /\ bt_message_callback' = FALSE
            /\ BtReturns("stop_receive_thread", TRUE)
    /\ UNCHANGED <<conn_rest, bt_connected, bt_socket, bt_stop_receive, bt_loop,
                   link, unclosed>>

\* start_receive_thread, lines 425-444: the callback is set, the stream is
\* subscribed when connected, and _connected is returned.
BtStartReceiveThread ==
    /\ BtIdle
    /\ bt_message_callback' = TRUE
    /\ BtReturns("start_receive_thread", bt_connected)
    /\ UNCHANGED <<conn_rest, bt_connected, bt_socket, bt_stop_receive,
                   bt_receive_thread, bt_loop, link, unclosed, bt_call>>

\* _receive_loop, line 269: the test of the while loop.
BtLoopTop ==
    /\ bt_loop = "top"
    /\ bt_loop' = IF ~bt_stop_receive /\ bt_connected THEN "recv" ELSE "exit"
    /\ UNCHANGED <<conn_rest, bt_connected, bt_socket, bt_stop_receive,
                   bt_receive_thread, bt_message_callback, link, unclosed,
                   bt_call, bt_done, bt_calls>>

\* _receive_loop, lines 270-291: data or a timeout go on with the loop; no
\* data, or an exception (the link is lost, the socket was closed or is
\* None), break it.
BtLoopRecv ==
    /\ bt_loop = "recv"
    /\ bt_loop' = IF bt_socket = "None" \/ link # "up" THEN "exit" ELSE "top"
    /\ UNCHANGED <<conn_rest, bt_connected, bt_socket, bt_stop_receive,
                   bt_receive_thread, bt_message_callback, link, unclosed,
                   bt_call, bt_done, bt_calls>>

\* _receive_loop, lines 293-295, and the end of the thread.
BtLoopExit ==
    /\ bt_loop = "exit"
    /\ bt_connected' = FALSE
    /\ bt_loop' = "dead"
    /\ UNCHANGED <<conn_rest, bt_socket, bt_stop_receive, bt_receive_thread,
                   bt_message_callback, link, unclosed, bt_call, bt_done,
                   bt_calls>>

\* The server goes away or out of range.
LinkLost ==
    /\ link = "up"
    /\ link' = "lost"
    /\ UNCHANGED <<conn_rest, bt_connected, bt_socket, bt_stop_receive,
                   bt_receive_thread, bt_message_callback, bt_loop, unclosed,
                   bt_call, bt_done, bt_calls>>

ConnNext ==
    \/ BtConnect \/ BtDisconnect \/ BtDisconnectJoin
    \/ BtStopReceiveThread \/ BtStopJoin \/ BtStartReceiveThread
    \/ BtLoopTop \/ BtLoopRecv \/ BtLoopExit \/ LinkLost
ConnStart == Unused /\ NoMore
ConnSpec == ConnStart /\ [][ConnNext]_vars

\* disconnect() returns in this step.
DisconnectReturns == bt_calls' = bt_calls + 1 /\ bt_done'.op = "disconnect"

\* C40: when disconnect() returns the driver holds no open socket (_socket
\* is None and the socket was closed) and is not connected, whatever calls
\* and connection losses came before; and is_connected does not become false
\* while the link is up unless disconnect made it so (stop_receive_thread by
\* itself does not change the connection state).
C40_DisconnectLeavesNothing ==
    [][ /\ DisconnectReturns =>
             bt_socket' = "None" /\ unclosed' = 0 /\ ~bt_connected'
        /\ (bt_connected /\ ~bt_connected') => link' # "up" ]_vars

====
